---- MODULE Spec2Model ----
(***************************************************************************)
(* A model of the parsing, reconciliation and table-preparation code of    *)
(* the DSSAT-CERES-Wheat calibration figures repository (src/src/utils.py, *)
(* src/src/ts_get_data.py, src/src/data_preparation_grid.py and the figure *)
(* scripts).                                                               *)
(*                                                                         *)
(* Text is modelled at token level.  A line of a file is a record          *)
(*   [indent |-> BOOLEAN, toks |-> sequence of tokens]                     *)
(* where indent says whether the raw line starts with white space and toks *)
(* is what str.split() returns.  A ':' is always a token of its own, as in *)
(* the DSSAT output files ("TREATMENT  1     : WW23_G-1   WHCER048").      *)
(* Line numbers are 0-based as in the code; Line(ls, i) is lines[i].       *)
(***************************************************************************)
EXTENDS Integers, Sequences, FiniteSets, TLC

VARIABLES
    pc,            \* position of the function or script under study
    lines,              \* file.readlines() of the file being parsed
    result_dict,        \* simulations_lines: the returned mapping (insertion ordered)
    all_data,           \* extract_simulation_data: the returned table
    header_line,        \* extract_simulation_data: the returned header line
    folders,            \* the calibration folders: code, OVERVIEW.OUT, config.yaml
    code_idx,           \* how many codes of calibration_code_list are processed
    config_file,        \* the local config_file (what yaml.safe_load returned last)
    list_overview_df,   \* the per-folder tables collected so far
    overview_data,      \* the returned table
    wht_lines,          \* file.readlines() of the .WHT file
    wht_df,             \* the returned table: columns and rows of tokens
    ts_args,            \* the call's arguments and the files it reads
    treatment_number_name,  \* extract_treatment_info_plantgrowth: name -> treatment number
    treatment_experiment_name,  \* extract_treatment_info_plantgrowth: name -> experiment
    plantgro_df,        \* the simulated table
    dap0_dates,         \* the DATE values of the simulated rows with DAP = 0
    wht_full_df,        \* the measurement table
    ts_return,          \* the returned pair (plantgro_df, wht_full_df)
    mt_args,            \* the metric tables and the selection the script passes
    global_limits,      \* the dict compute_global_metric_limits returned
    metrics_by_treatment,  \* treatment -> (nrmse, mpe, r2, gain) pivot tables
    fs_script,          \* the script that runs
    fs_files,           \* the files on disk: [dir, name, ext, content]
    fs_dirs,            \* the directories on disk
    fs_pos,             \* how many of the script's loading calls have returned
    vf_disk,            \* the filesystem: the paths of its regular files and of its directories
    file_path,          \* the argument of the call
    vf_out,             \* how the call ended: the value returned or the exception raised
    vf_probed,          \* the paths the call asked the filesystem about
    me_overview,        \* the table load_and_process_overview returned to the script
    me_nrmse,           \* nrmse_data: what compute_grouped_nrmse returned
    me_mpe,             \* mpe_data: what calculate_mpe returned
    me_r2,              \* r2_data: what calculate_r2_1to1 returned
    me_gain,            \* gain_data: what calculate_gain returned
    all_plantgro_dfs,   \* the tables read_growth_file returned, one per run read
    axes,               \* the panels of the grid, one per treatment: rows drawn, tick labels, title
    f6_args,            \* the calibration folders, the .WHT files, the variable and the treatment
    treatment_wht_dfs_list,  \* one measurement table per calibration code loaded
    treatment_wht_dfs,  \* the concatenated measurement table of the treatment
    meas_stats         \* the per-DAP measurement statistics the panel draws

\* The value of a variable the function under study does not use.
Idle == <<>>

\* OVERVIEW / PlantGro parsing (simulations_lines, extract_simulation_data)
ovVars == <<lines, result_dict, all_data, header_line>>
ovIdle == lines = Idle /\ result_dict = Idle /\ all_data = Idle /\ header_line = Idle

\* load_and_process_overview
loVars == <<folders, code_idx, config_file, list_overview_df, overview_data>>
loIdle == folders = Idle /\ code_idx = Idle /\ config_file = Idle /\ list_overview_df = Idle /\ overview_data = Idle

\* wht_filedata_to_dataframe
whVars == <<wht_lines, wht_df>>
whIdle == wht_lines = Idle /\ wht_df = Idle

\* load_prepare_time_series_data (ts_get_data.py)
tsVars == <<ts_args, treatment_number_name, treatment_experiment_name, plantgro_df, dap0_dates, wht_full_df, ts_return>>
tsIdle == ts_args = Idle /\ treatment_number_name = Idle /\ treatment_experiment_name = Idle /\ plantgro_df = Idle /\ dap0_dates = Idle /\ wht_full_df = Idle /\ ts_return = Idle

\* Figure-5: compute_global_metric_limits and prepare_metrics_by_treatment
mtVars == <<mt_args, global_limits, metrics_by_treatment>>
mtIdle == mt_args = Idle /\ global_limits = Idle /\ metrics_by_treatment = Idle

\* the figure scripts and the files they touch
fsVars == <<fs_script, fs_files, fs_dirs, fs_pos>>
fsIdle == fs_script = Idle /\ fs_files = Idle /\ fs_dirs = Idle /\ fs_pos = Idle

\* validate_file_path
vfVars == <<vf_disk, file_path, vf_out, vf_probed>>
vfIdle == vf_disk = Idle /\ file_path = Idle /\ vf_out = Idle /\ vf_probed = Idle

\* Figure-5: the metric engine (metrics.py)
meVars == <<me_overview, me_nrmse, me_mpe, me_r2, me_gain>>
meIdle == me_overview = Idle /\ me_nrmse = Idle /\ me_mpe = Idle /\ me_r2 = Idle /\ me_gain = Idle

\* read_growth_file over the runs of a PlantGro.OUT
pgVars == <<all_plantgro_dfs>>
pgIdle == all_plantgro_dfs = Idle

\* create_metric_grid_heatmaps (heatmap_plot_grid_NRMSE.py)
grVars == <<axes>>
grIdle == axes = Idle

\* Figure-6: the measurement table of one treatment and variable
f6Vars == <<f6_args, treatment_wht_dfs_list, treatment_wht_dfs, meas_stats>>
f6Idle == f6_args = Idle /\ treatment_wht_dfs_list = Idle /\ treatment_wht_dfs = Idle /\ meas_stats = Idle

\* Everything but the ov variables.
ovRest == <<loVars, whVars, tsVars, mtVars, fsVars, vfVars, meVars, pgVars, grVars, f6Vars>>
ovRestIdle == loIdle /\ whIdle /\ tsIdle /\ mtIdle /\ fsIdle /\ vfIdle /\ meIdle /\ pgIdle /\ grIdle /\ f6Idle

\* Everything but the lo variables.
loRest == <<ovVars, whVars, tsVars, mtVars, fsVars, vfVars, meVars, pgVars, grVars, f6Vars>>
loRestIdle == ovIdle /\ whIdle /\ tsIdle /\ mtIdle /\ fsIdle /\ vfIdle /\ meIdle /\ pgIdle /\ grIdle /\ f6Idle

\* Everything but the wh variables.
whRest == <<ovVars, loVars, tsVars, mtVars, fsVars, vfVars, meVars, pgVars, grVars, f6Vars>>
whRestIdle == ovIdle /\ loIdle /\ tsIdle /\ mtIdle /\ fsIdle /\ vfIdle /\ meIdle /\ pgIdle /\ grIdle /\ f6Idle

\* Everything but the ts variables.
tsRest == <<ovVars, loVars, whVars, mtVars, fsVars, vfVars, meVars, pgVars, grVars, f6Vars>>
tsRestIdle == ovIdle /\ loIdle /\ whIdle /\ mtIdle /\ fsIdle /\ vfIdle /\ meIdle /\ pgIdle /\ grIdle /\ f6Idle

\* Everything but the mt variables.
mtRest == <<ovVars, loVars, whVars, tsVars, fsVars, vfVars, meVars, pgVars, grVars, f6Vars>>
mtRestIdle == ovIdle /\ loIdle /\ whIdle /\ tsIdle /\ fsIdle /\ vfIdle /\ meIdle /\ pgIdle /\ grIdle /\ f6Idle

\* Everything but the fs variables.
fsRest == <<ovVars, loVars, whVars, tsVars, mtVars, vfVars, meVars, pgVars, grVars, f6Vars>>
fsRestIdle == ovIdle /\ loIdle /\ whIdle /\ tsIdle /\ mtIdle /\ vfIdle /\ meIdle /\ pgIdle /\ grIdle /\ f6Idle

\* Everything but the vf variables.
vfRest == <<ovVars, loVars, whVars, tsVars, mtVars, fsVars, meVars, pgVars, grVars, f6Vars>>
vfRestIdle == ovIdle /\ loIdle /\ whIdle /\ tsIdle /\ mtIdle /\ fsIdle /\ meIdle /\ pgIdle /\ grIdle /\ f6Idle

\* Everything but the me variables.
meRest == <<ovVars, loVars, whVars, tsVars, mtVars, fsVars, vfVars, pgVars, grVars, f6Vars>>
meRestIdle == ovIdle /\ loIdle /\ whIdle /\ tsIdle /\ mtIdle /\ fsIdle /\ vfIdle /\ pgIdle /\ grIdle /\ f6Idle

\* Everything but the pg variables.
pgRest == <<ovVars, loVars, whVars, tsVars, mtVars, fsVars, vfVars, meVars, grVars, f6Vars>>
pgRestIdle == ovIdle /\ loIdle /\ whIdle /\ tsIdle /\ mtIdle /\ fsIdle /\ vfIdle /\ meIdle /\ grIdle /\ f6Idle

\* Everything but the gr variables.
grRest == <<ovVars, loVars, whVars, tsVars, mtVars, fsVars, vfVars, meVars, pgVars, f6Vars>>
grRestIdle == ovIdle /\ loIdle /\ whIdle /\ tsIdle /\ mtIdle /\ fsIdle /\ vfIdle /\ meIdle /\ pgIdle /\ f6Idle

\* Everything but the f6 variables.
f6Rest == <<ovVars, loVars, whVars, tsVars, mtVars, fsVars, vfVars, meVars, pgVars, grVars>>
f6RestIdle == ovIdle /\ loIdle /\ whIdle /\ tsIdle /\ mtIdle /\ fsIdle /\ vfIdle /\ meIdle /\ pgIdle /\ grIdle

\* extract_treatment_info_plantgrowth: everything but lines, result_dict, treatment_number_name, treatment_experiment_name.
infoRest ==
    <<all_data, header_line, folders, code_idx,
      config_file, list_overview_df, overview_data, wht_lines,
      wht_df, ts_args, plantgro_df, dap0_dates,
      wht_full_df, ts_return, mt_args, global_limits,
      metrics_by_treatment, fs_script, fs_files, fs_dirs,
      fs_pos, vf_disk, file_path, vf_out,
      vf_probed, me_overview, me_nrmse, me_mpe,
      me_r2, me_gain, all_plantgro_dfs, axes,
      f6_args, treatment_wht_dfs_list, treatment_wht_dfs, meas_stats>>
infoRestIdle ==
    /\ all_data = Idle
    /\ header_line = Idle
    /\ folders = Idle
    /\ code_idx = Idle
    /\ config_file = Idle
    /\ list_overview_df = Idle
    /\ overview_data = Idle
    /\ wht_lines = Idle
    /\ wht_df = Idle
    /\ ts_args = Idle
    /\ plantgro_df = Idle
    /\ dap0_dates = Idle
    /\ wht_full_df = Idle
    /\ ts_return = Idle
    /\ mt_args = Idle
    /\ global_limits = Idle
    /\ metrics_by_treatment = Idle
    /\ fs_script = Idle
    /\ fs_files = Idle
    /\ fs_dirs = Idle
    /\ fs_pos = Idle
    /\ vf_disk = Idle
    /\ file_path = Idle
    /\ vf_out = Idle
    /\ vf_probed = Idle
    /\ me_overview = Idle
    /\ me_nrmse = Idle
    /\ me_mpe = Idle
    /\ me_r2 = Idle
    /\ me_gain = Idle
    /\ all_plantgro_dfs = Idle
    /\ axes = Idle
    /\ f6_args = Idle
    /\ treatment_wht_dfs_list = Idle
    /\ treatment_wht_dfs = Idle
    /\ meas_stats = Idle

\* read_growth_file: everything but lines, result_dict, all_plantgro_dfs.
growthRest ==
    <<all_data, header_line, folders, code_idx,
      config_file, list_overview_df, overview_data, wht_lines,
      wht_df, ts_args, treatment_number_name, treatment_experiment_name,
      plantgro_df, dap0_dates, wht_full_df, ts_return,
      mt_args, global_limits, metrics_by_treatment, fs_script,
      fs_files, fs_dirs, fs_pos, vf_disk,
      file_path, vf_out, vf_probed, me_overview,
      me_nrmse, me_mpe, me_r2, me_gain,
      axes, f6_args, treatment_wht_dfs_list, treatment_wht_dfs,
      meas_stats>>
growthRestIdle ==
    /\ all_data = Idle
    /\ header_line = Idle
    /\ folders = Idle
    /\ code_idx = Idle
    /\ config_file = Idle
    /\ list_overview_df = Idle
    /\ overview_data = Idle
    /\ wht_lines = Idle
    /\ wht_df = Idle
    /\ ts_args = Idle
    /\ treatment_number_name = Idle
    /\ treatment_experiment_name = Idle
    /\ plantgro_df = Idle
    /\ dap0_dates = Idle
    /\ wht_full_df = Idle
    /\ ts_return = Idle
    /\ mt_args = Idle
    /\ global_limits = Idle
    /\ metrics_by_treatment = Idle
    /\ fs_script = Idle
    /\ fs_files = Idle
    /\ fs_dirs = Idle
    /\ fs_pos = Idle
    /\ vf_disk = Idle
    /\ file_path = Idle
    /\ vf_out = Idle
    /\ vf_probed = Idle
    /\ me_overview = Idle
    /\ me_nrmse = Idle
    /\ me_mpe = Idle
    /\ me_r2 = Idle
    /\ me_gain = Idle
    /\ axes = Idle
    /\ f6_args = Idle
    /\ treatment_wht_dfs_list = Idle
    /\ treatment_wht_dfs = Idle
    /\ meas_stats = Idle

vars == <<pc, ovVars, loVars, whVars, tsVars, mtVars, fsVars, vfVars, meVars, pgVars, grVars, f6Vars>>

\* A value that may be missing (a name not bound, an expression that raises):
\* Nothing, or Some(v).
Nothing == <<>>
Some(v) == <<v>>
Get(o) == o[1]

----------------------------------------------------------------------------
(* Lines and tokens *)

mk(ind, ts) == [indent |-> ind, toks |-> ts]

Line(ls, i) == ls[i + 1]

\* line.strip() == '' (also `not line.strip()`)
IsBlank(l) == l.toks = <<>>

\* Tokens that begin with the character named.
StarTokens == {"*DSSAT", "*MAIN", "*", "*GROWTH", "*EXP"}
AtTokens == {"@", "@VARIABLE", "@TRNO", "@YEAR"}
BangTokens == {"!", "!c"}

\* line.startswith(c) on the raw line: no leading white space.
RawStartsWith(l, tokset) == ~l.indent /\ l.toks # <<>> /\ l.toks[1] \in tokset

\* line.strip().startswith(word) for a keyword that is a whole token.
StrippedStartsWith(l, word) == l.toks # <<>> /\ l.toks[1] = word

\* '*DSSAT' in line
HasDssat(l) == \E i \in 1..Len(l.toks) : l.toks[i] = "*DSSAT"

\* Positions of the ':' tokens of a token sequence.
Colons(ts) == {i \in 1..Len(ts) : ts[i] = ":"}

Min(S) == CHOOSE x \in S : \A y \in S : x <= y
Max(S) == CHOOSE x \in S : \A y \in S : x >= y

\* text.split(':')[1], stripped and split at white space: the tokens between the
\* first ':' and the second (or the end).  Nothing when there is no ':'
\* (IndexError).
SplitColon1(ts) ==
    IF Colons(ts) = {} THEN Nothing
    ELSE LET c1 == Min(Colons(ts))
             rest == {i \in Colons(ts) : i > c1}
             stop == IF rest = {} THEN Len(ts) + 1 ELSE Min(rest)
         IN Some(SubSeq(ts, c1 + 1, stop - 1))

\* seg.rsplit(maxsplit=1)[0]: all but the last token; a single token is kept
\* whole; Nothing for the empty text (IndexError).
RsplitHead(seg) ==
    IF seg = <<>> THEN Nothing
    ELSE IF Len(seg) = 1 THEN Some(seg)
    ELSE Some(SubSeq(seg, 1, Len(seg) - 1))

\* run_line.split(':')[1].strip().rsplit(maxsplit=1)[0]
TreatmentName(ts) ==
    IF SplitColon1(ts) = Nothing THEN Nothing ELSE RsplitHead(Get(SplitColon1(ts)))

----------------------------------------------------------------------------
(* dict with insertion order: a sequence of [key, val] *)

DictKeys(d) == {d[i].key : i \in 1..Len(d)}

\* d[k] for a key of d
DictGet(d, k) == d[CHOOSE i \in 1..Len(d) : d[i].key = k].val

\* d[k] = v
DictSet(d, k, v) ==
    IF k \in DictKeys(d)
    THEN [i \in 1..Len(d) |-> IF d[i].key = k THEN [key |-> k, val |-> v] ELSE d[i]]
    ELSE Append(d, [key |-> k, val |-> v])

----------------------------------------------------------------------------
(* simulations_lines *)

\* The elements of a finite set of integers in ascending order.
RECURSIVE Ascending(_)
Ascending(S) ==
    IF S = {} THEN <<>> ELSE <<Min(S)>> \o Ascending(S \ {Min(S)})

\* Indices (0-based) of the lines containing '*DSSAT', as enumerate() meets them.
dssat_lines(ls) == Ascending({i \in 0..(Len(ls) - 1) : HasDssat(Line(ls, i))})

IsTreatmentLine(l) == StrippedStartsWith(l, "TREATMENT")

\* Indices of the lines whose stripped text starts with 'TREATMENT'.
run_lines(ls) == Ascending({i \in 0..(Len(ls) - 1) : IsTreatmentLine(Line(ls, i))})

\* end_line of the i-th (1-based) '*DSSAT' section.
EndLine(ls, ds, i) == IF i < Len(ds) THEN ds[i + 1] - 1 ELSE Len(ls)

\* The TREATMENT lines inside [start_line, end_line], in file order.
RunsIn(ls, s, e) == SelectSeq(run_lines(ls), LAMBDA r : r >= s /\ r <= e)

\* The inner for loop without its break: the last TREATMENT line wins.
MatchedRunNoBreak(rs) == rs[Len(rs)]

\* The inner for loop with its break: the first TREATMENT line of the section.
MatchedRun(rs) == rs[1]

\* The loop over dssat_lines, from section i on, with result_dict so far.
\* Returns Some(dictionary), or Nothing when a TREATMENT line cannot be parsed
\* (IndexError).
RECURSIVE SectionsFrom(_, _, _, _)
SectionsFrom(ls, ds, i, d) ==
    IF i > Len(ds) THEN Some(d)
    ELSE LET s == ds[i]
             e == EndLine(ls, ds, i)
             rs == RunsIn(ls, s, e)
         IN IF rs = <<>> THEN SectionsFrom(ls, ds, i + 1, d)
            ELSE LET run_info == TreatmentName(Line(ls, MatchedRun(rs)).toks)
                 IN IF run_info = Nothing THEN Nothing
                    ELSE SectionsFrom(ls, ds, i + 1,
                             DictSet(d, Get(run_info), [start |-> s, end |-> e]))

simulations_lines(ls) == SectionsFrom(ls, dssat_lines(ls), 1, <<>>)

----------------------------------------------------------------------------
(* Inputs of the simulations_lines study: every file of at most MaxLines   *)
(* lines drawn from SimLineKinds.                                          *)

MaxLines == 5

L_DSSAT == mk(FALSE, <<"*DSSAT">>)
L_OTHER == mk(TRUE, <<"x">>)
L_TRT_A == mk(TRUE, <<"TREATMENT", "1", ":", "A", "WHCER">>)
L_TRT_B == mk(TRUE, <<"TREATMENT", "2", ":", "B", "WHCER">>)
L_TRT_SINGLE == mk(TRUE, <<"TREATMENT", "3", ":", "C">>)
L_TRT_COLONS == mk(TRUE, <<"TREATMENT", "4", ":", "D", ":", "E", "WHCER">>)
L_TRT_NOCOLON == mk(TRUE, <<"TREATMENT", "5">>)

SimLineKinds ==
    {L_DSSAT, L_OTHER, L_TRT_A, L_TRT_B, L_TRT_SINGLE, L_TRT_COLONS, L_TRT_NOCOLON}

SeqsUpTo(S, n) == UNION {[1..k -> S] : k \in 0..n}

InitSim ==
    /\ pc = "start"
    /\ lines \in SeqsUpTo(SimLineKinds, MaxLines)
    /\ result_dict = Idle
    /\ all_data = Idle
    /\ header_line = Idle
    /\ ovRestIdle

\* A call of simulations_lines(file_path) on the file.
SimulationsLines ==
    /\ pc = "start"
    /\ LET r == simulations_lines(lines)
       IN /\ pc' = IF r = Nothing THEN "raised" ELSE "done"
          /\ result_dict' = IF r = Nothing THEN <<>> ELSE Get(r)
    /\ UNCHANGED <<lines, all_data, header_line, ovRest>>

NextSim == SimulationsLines

SpecSim == InitSim /\ [][NextSim]_vars

----------------------------------------------------------------------------
(* What the spec says of simulations_lines, stated on the file itself. *)

DssatIdx == {i \in 0..(Len(lines) - 1) : HasDssat(Line(lines, i))}

\* The last line of the block that starts at '*DSSAT' line s.
BlockLast(s) ==
    LET later == {i \in DssatIdx : i > s}
    IN IF later = {} THEN Len(lines) - 1 ELSE Min(later) - 1

BlockTrts(s) == {i \in s..BlockLast(s) : IsTreatmentLine(Line(lines, i))}

BlocksWithTrt == {s \in DssatIdx : BlockTrts(s) # {}}

FirstTrtToks(s) == Line(lines, Min(BlockTrts(s))).toks

\* The text after the first ':' (to the end of the line), empty for a line
\* without ':'.
AfterFirstColon(ts) ==
    IF Colons(ts) = {} THEN <<>> ELSE SubSeq(ts, Min(Colons(ts)) + 1, Len(ts))

\* ... with its last white-space separated token removed.
NameClaimed(ts) ==
    SubSeq(AfterFirstColon(ts), 1, Len(AfterFirstColon(ts)) - 1)

\* The text between the first ':' and the next ':' (or the end of the line),
\* without its last token when it has more than one.
NameKept(ts) ==
    LET a == AfterFirstColon(ts)
        seg == IF Colons(a) = {} THEN a ELSE SubSeq(a, 1, Min(Colons(a)) - 1)
    IN IF Len(seg) <= 1 THEN seg ELSE SubSeq(seg, 1, Len(seg) - 1)

DistinctNames(Name(_)) ==
    \A s, t \in BlocksWithTrt :
        s # t => Name(FirstTrtToks(s)) # Name(FirstTrtToks(t))

OneEntryPerBlock(Name(_)) ==
    /\ Len(result_dict) = Cardinality(BlocksWithTrt)
    /\ \A i \in 1..Len(result_dict) : result_dict[i].val.start \in BlocksWithTrt
    /\ \A s \in BlocksWithTrt :
          \E i \in 1..Len(result_dict) :
              /\ result_dict[i].val.start = s
              /\ result_dict[i].key = Name(FirstTrtToks(s))
              /\ \A j \in 1..Len(result_dict) :
                    result_dict[j].val.start = s => j = i

\* C2 as written: when the blocks' treatment names are pairwise distinct, the
\* mapping returned by simulations_lines has exactly one entry per block that
\* holds a TREATMENT line, keyed by the text after the first ':' of the block's
\* first TREATMENT line without its last token, its range starting at the
\* block's '*DSSAT' line; nothing else yields an entry.
C2_AsWritten ==
    (pc = "done" /\ DistinctNames(NameClaimed)) => OneEntryPerBlock(NameClaimed)

\* C2 amended: the same, the key being the text between the first ':' and the
\* next ':' (or the end of the line) without its last token when it has more
\* than one token; a single token is kept whole.
C2_OneEntryPerTreatmentBlock ==
    (pc = "done" /\ DistinctNames(NameKept)) => OneEntryPerBlock(NameKept)

\* C2 witness: two blocks yield two entries, one of them keyed by a single
\* token kept whole, and a TREATMENT line before the first '*DSSAT' line
\* yields none.
C2_Witness ==
    /\ pc = "done"
    /\ DistinctNames(NameKept)
    /\ Len(result_dict) = 2
    /\ \E i \in 1..2 : result_dict[i].key = <<"C">>
    /\ \E i \in 0..(Len(lines) - 1) :
          IsTreatmentLine(Line(lines, i)) /\ \A s \in DssatIdx : i < s

----------------------------------------------------------------------------
(* extract_simulation_data *)

\* Tokens that contain '--------'.
DashTokens == {"--------"}

\* Tokens that start with '-99'.
Missing99 == {"-99", "-99.0"}

\* The number a token spells, Nothing for the empty string and for text that
\* is no number.
NumberOf(tok) ==
    CASE tok = "0" -> Some(0)
      [] tok = "1" -> Some(1)
      [] tok = "2" -> Some(2)
      [] tok = "3" -> Some(3)
      [] tok = "4" -> Some(4)
      [] tok = "5" -> Some(5)
      [] tok = "6" -> Some(6)
      [] tok = "7" -> Some(7)
      [] tok = "9" -> Some(9)
      [] tok = "10" -> Some(10)
      [] tok = "12" -> Some(12)
      [] tok = "364" -> Some(364)
      [] tok = "365" -> Some(365)
      [] tok = "2022" -> Some(2022)
      [] tok = "2023" -> Some(2023)
      [] tok = "2022364" -> Some(2022364)
      [] tok = "2022365" -> Some(2022365)
      [] tok = "2023001" -> Some(2023001)
      [] tok = "2023002" -> Some(2023002)
      [] tok = "2023003" -> Some(2023003)
      [] tok = "-99" -> Some(-99)
      [] OTHER -> Nothing

\* pd.to_numeric(token, errors='coerce'): NaN for what is no number.
ToNumeric(tok) == NumberOf(tok)

\* '' if value.startswith('-99') else value
Blank99(tok) == IF tok \in Missing99 THEN "" ELSE tok

\* 'CULTIVAR :' in line
HasCultivarColon(ts) ==
    \E i \in 1..(Len(ts) - 1) : ts[i] = "CULTIVAR" /\ ts[i + 1] = ":"

\* line.split('CULTIVAR :')[1].split('ECOTYPE')[0].strip()
CultivarOf(ts) ==
    LET c == Min({i \in 1..(Len(ts) - 1) : ts[i] = "CULTIVAR" /\ ts[i + 1] = ":"})
        rest == SubSeq(ts, c + 2, Len(ts))
        eco == {i \in 1..Len(rest) : rest[i] = "ECOTYPE"}
    IN IF eco = {} THEN rest ELSE SubSeq(rest, 1, Min(eco) - 1)

\* The local variables of extract_simulation_data.
ExtractStart ==
    [cultivar |-> Nothing, experiment_info |-> Nothing, cultivar_data |-> <<>>,
     all_data |-> <<>>, header_line |-> Nothing, raised |-> FALSE]

\* The loop `for data_line in lines[i + 1:]`, at line j with line_number n.
RECURSIVE DataLoop(_, _, _, _, _)
DataLoop(ls, j, n, st, treatment) ==
    IF j >= Len(ls) THEN st
    ELSE LET l == Line(ls, j)
             ts == l.toks
         IN IF IsBlank(l) \/ RawStartsWith(l, StarTokens) THEN st
            ELSE IF Len(ts) < 2 \/ st.cultivar = Nothing
                 THEN [st EXCEPT !.raised = TRUE]
            ELSE DataLoop(ls, j + 1, n + 1,
                     [st EXCEPT !.cultivar_data = Append(@,
                         [treatment |-> treatment,
                          cultivar |-> Get(st.cultivar),
                          variable |-> SubSeq(ts, 1, Len(ts) - 2),
                          value_simulated |-> Blank99(ts[Len(ts) - 1]),
                          value_measured |-> Blank99(ts[Len(ts)]),
                          experiment |-> st.experiment_info,
                          position |-> n + 1])],
                     treatment)

\* all_data = pd.concat([all_data, cultivar_df]) after the rows of an '@' line.
ConcatRows(st) == [st EXCEPT !.all_data = @ \o st.cultivar_data]

\* The body of `for i in range(start_line, end_line)` for one line.
ScanLine(ls, i, st, treatment) ==
    LET l == Line(ls, i)
        ts == l.toks
        st1 == IF StrippedStartsWith(l, "EXPERIMENT")
               THEN IF SplitColon1(ts) = Nothing
                    THEN [st EXCEPT !.raised = TRUE]
                    ELSE [st EXCEPT !.experiment_info = SplitColon1(ts)]
               ELSE st
        st2 == IF StrippedStartsWith(l, "CROP") /\ HasCultivarColon(ts)
               THEN [st1 EXCEPT !.cultivar = Some(CultivarOf(ts))]
               ELSE st1
    IN IF st1.raised THEN st1
       ELSE IF l.toks # <<>> /\ l.toks[1] \in AtTokens
            THEN LET st3 == DataLoop(ls, i + 1, 0,
                                [st2 EXCEPT !.header_line = Some(ts)], treatment)
                 IN IF st3.raised THEN st3 ELSE ConcatRows(st3)
            ELSE st2

RECURSIVE ScanLoop(_, _, _, _, _)
ScanLoop(ls, i, e, st, treatment) ==
    IF st.raised \/ i >= e THEN st
    ELSE ScanLoop(ls, i + 1, e, ScanLine(ls, i, st, treatment), treatment)

\* The loop over treatment_dict.items(), from its k-th entry on.
RECURSIVE TreatLoop(_, _, _, _)
TreatLoop(ls, d, k, st) ==
    IF st.raised \/ k > Len(d) THEN st
    ELSE TreatLoop(ls, d, k + 1,
             ScanLoop(ls, d[k].val.start, d[k].val.end,
                 [st EXCEPT !.cultivar_data = <<>>, !.experiment_info = Nothing],
                 d[k].key))

\* The rows none of whose VARIABLE, VALUE_SIMULATED, VALUE_MEASURED contains
\* '--------'.
NoDashes(r) ==
    /\ \A i \in 1..Len(r.variable) : r.variable[i] \notin DashTokens
    /\ r.value_simulated \notin DashTokens
    /\ r.value_measured \notin DashTokens

\* The two value columns made numeric.
Numeric(r) ==
    [r EXCEPT !.value_simulated = ToNumeric(@), !.value_measured = ToNumeric(@)]

CleanRows(rows) ==
    LET kept == SelectSeq(rows, NoDashes)
    IN [i \in 1..Len(kept) |-> Numeric(kept[i])]

\* extract_simulation_data(file_path): [raised, all_data, header_line].
extract_simulation_data(ls) ==
    LET treatment_dict == simulations_lines(ls)
    IN IF treatment_dict = Nothing
       THEN [raised |-> TRUE, all_data |-> <<>>, header_line |-> Nothing]
       ELSE LET st == TreatLoop(ls, Get(treatment_dict), 1, ExtractStart)
            IN IF st.raised \/ st.header_line = Nothing
               THEN [raised |-> TRUE, all_data |-> <<>>, header_line |-> Nothing]
               ELSE [raised |-> FALSE, all_data |-> CleanRows(st.all_data),
                     header_line |-> st.header_line]

----------------------------------------------------------------------------
(* Inputs of the extract_simulation_data study: OVERVIEW files of at most  *)
(* MaxBlocks blocks; block k declares treatment Tk, experiment Ek and      *)
(* cultivar Gk, each of them optional, and holds one of the Sections.      *)

MaxBlocks == 2

L_BLANK == mk(FALSE, <<>>)
L_MAIN == mk(FALSE, <<"*MAIN">>)
L_HDR == mk(FALSE, <<"@", "VARIABLE", "SIMULATED", "MEASURED">>)
L_DASH == mk(TRUE, <<"--------", "--------", "--------">>)
L_ROW1 == mk(TRUE, <<"Yield", "kg/ha", "10", "12">>)
L_ROW2 == mk(TRUE, <<"Anthesis", "5", "-99">>)

TName(k) == IF k = 1 THEN "WW23_G-1" ELSE IF k = 2 THEN "DR22_G-2" ELSE "HT22_G-3"
EName(k) == IF k = 1 THEN "E1" ELSE IF k = 2 THEN "E2" ELSE "E3"
GName(k) == IF k = 1 THEN "G1" ELSE IF k = 2 THEN "G2" ELSE "G3"

L_TRT(k) == mk(TRUE, <<"TREATMENT", "1", ":", TName(k), "WHCER">>)
L_EXP(k) == mk(TRUE, <<"EXPERIMENT", ":", EName(k), "WH">>)
L_CROP(k) ==
    mk(TRUE, <<"CROP", ":", "Wheat", "CULTIVAR", ":", GName(k), "ECOTYPE", ":", "X">>)

Sections ==
    { <<>>,
      <<L_HDR, L_DASH, L_ROW1, L_ROW2, L_BLANK>>,
      <<L_HDR, L_ROW1, L_BLANK, L_MAIN, L_HDR, L_ROW2, L_BLANK>>,
      <<L_HDR, L_ROW1, L_MAIN>> }

OverviewBlock(k, trt, exp, crop, sec) ==
    <<L_DSSAT>> \o (IF trt THEN <<L_TRT(k)>> ELSE <<>>)
                \o (IF exp THEN <<L_EXP(k)>> ELSE <<>>)
                \o (IF crop THEN <<L_CROP(k)>> ELSE <<>>)
                \o sec

OverviewBlocks(k) ==
    {OverviewBlock(k, trt, exp, crop, sec) :
        trt \in BOOLEAN, exp \in BOOLEAN, crop \in BOOLEAN, sec \in Sections}

\* The files of exactly n blocks.
RECURSIVE OverviewFiles(_)
OverviewFiles(n) ==
    IF n = 0 THEN {<<>>}
    ELSE {f \o b : f \in OverviewFiles(n - 1), b \in OverviewBlocks(n)}

InitExtract ==
    /\ pc = "start"
    /\ lines \in UNION {OverviewFiles(n) : n \in 1..MaxBlocks}
    /\ result_dict = Idle
    /\ all_data = Idle
    /\ header_line = Idle
    /\ ovRestIdle

\* A call of extract_simulation_data(file_path) on the file.
ExtractSimulationData ==
    /\ pc = "start"
    /\ LET r == extract_simulation_data(lines)
       IN /\ pc' = IF r.raised THEN "raised" ELSE "done"
          /\ all_data' = r.all_data
          /\ header_line' = r.header_line
    /\ UNCHANGED <<lines, result_dict, ovRest>>

NextExtract == ExtractSimulationData

SpecExtract == InitExtract /\ [][NextExtract]_vars

----------------------------------------------------------------------------
(* What the spec says of extract_simulation_data, stated on the file. *)

IsHeaderLine(l) == l.toks # <<>> /\ l.toks[1] \in AtTokens

\* The '@' header lines inside the block that starts at s.
BlockHeaders(s) == {h \in s..BlockLast(s) : IsHeaderLine(Line(lines, h))}

EndsRows(l) == IsBlank(l) \/ RawStartsWith(l, StarTokens)

\* The rows that follow header h, up to the first blank line or line
\* starting with '*'.
RowsAfter(h) ==
    {j \in (h + 1)..(Len(lines) - 1) :
        \A m \in (h + 1)..j : ~EndsRows(Line(lines, m))}

HasDashes(l) == \E i \in 1..Len(l.toks) : l.toks[i] \in DashTokens

\* The data rows of block s the claim speaks of.
DataRowsOf(s) ==
    {j \in UNION {RowsAfter(h) : h \in BlockHeaders(s)} : ~HasDashes(Line(lines, j))}

\* The record the claim says row j of the block named name yields.
IsRecordOf(r, name, j) ==
    LET ts == Line(lines, j).toks
    IN /\ r.treatment = name
       /\ r.variable = SubSeq(ts, 1, Len(ts) - 2)
       /\ r.value_simulated = ToNumeric(Blank99(ts[Len(ts) - 1]))
       /\ r.value_measured = ToNumeric(Blank99(ts[Len(ts)]))

RecordsOf(name) == {i \in 1..Len(all_data) : all_data[i].treatment = name}

\* C1: every data row that follows an '@' header line inside a treatment
\* block and holds no '--------' yields exactly one record of the returned
\* table, tagged with the block's treatment name and holding the row's
\* variable, simulated and measured tokens; no row is emitted twice, also
\* when a block holds more than one '@' header line.
C1_OneRecordPerDataRow ==
    pc = "done" =>
        \A s \in BlocksWithTrt :
            LET name == NameKept(FirstTrtToks(s))
            IN /\ Cardinality(RecordsOf(name)) = Cardinality(DataRowsOf(s))
               /\ \A j \in DataRowsOf(s) :
                     \E i \in RecordsOf(name) : IsRecordOf(all_data[i], name, j)

\* The text a 'CROP ... CULTIVAR : <text> ECOTYPE ...' line declares.
DeclaredCultivar(ts) ==
    LET c == CHOOSE i \in 1..Len(ts) : ts[i] = "CULTIVAR"
        e == {i \in (c + 1)..Len(ts) : ts[i] = "ECOTYPE"}
    IN SubSeq(ts, c + 2, IF e = {} THEN Len(ts) ELSE Min(e) - 1)

\* The cultivars and the experiments declared inside the block that starts
\* at s.
CultivarsIn(s) ==
    {DeclaredCultivar(Line(lines, i).toks) :
        i \in {j \in s..BlockLast(s) :
                  /\ StrippedStartsWith(Line(lines, j), "CROP")
                  /\ \E k \in 1..Len(Line(lines, j).toks) :
                         Line(lines, j).toks[k] = "CULTIVAR"}}

ExperimentsIn(s) ==
    {Some(AfterFirstColon(Line(lines, i).toks)) :
        i \in {j \in s..BlockLast(s) : StrippedStartsWith(Line(lines, j), "EXPERIMENT")}}

\* The value is the one the block declares; when the block declares none,
\* it is not one another block declares.
OfOwnBlock(value, s, DeclaredIn(_)) ==
    IF DeclaredIn(s) # {} THEN value \in DeclaredIn(s)
    ELSE \A t \in DssatIdx \ {s} : value \notin DeclaredIn(t)

\* C14: the cultivar and experiment fields of every record are those declared
\* inside the record's own treatment block (its 'CROP ... CULTIVAR :' line and
\* its 'EXPERIMENT' line); a block that lacks one of these lines never yields
\* records carrying the cultivar or experiment of another block.
C14_FieldsOfOwnBlock ==
    pc = "done" =>
        \A s \in BlocksWithTrt :
            \A i \in RecordsOf(NameKept(FirstTrtToks(s))) :
                /\ OfOwnBlock(all_data[i].cultivar, s, CultivarsIn)
                /\ OfOwnBlock(all_data[i].experiment, s, ExperimentsIn)

----------------------------------------------------------------------------
(* load_and_process_overview *)

\* A value of config.yaml as yaml.safe_load returns it: a list of strings
\* (kind "list"), a single string (kind "str", items = <<the string>>), or no
\* such key (kind "none").  A string is a sequence of characters.
YList(items) == [kind |-> "list", items |-> items]
YStr(str) == [kind |-> "str", items |-> <<str>>]
YNone == [kind |-> "none", items |-> <<>>]

\* sep.join(parts)
RECURSIVE Join(_, _)
Join(sep, parts) ==
    IF parts = <<>> THEN <<>>
    ELSE IF Len(parts) = 1 THEN parts[1]
    ELSE parts[1] \o sep \o Join(sep, Tail(parts))

CommaSpace == <<",", " ">>

\* Iterating a value: the strings of a list, the characters of a string.
IterParts(value) ==
    IF value.kind = "str"
    THEN [i \in 1..Len(value.items[1]) |-> <<value.items[1][i]>>]
    ELSE value.items

\* The column a list of labels gives: its strings joined.
LabelColumnOfList(value) == Join(CommaSpace, value.items)

\* ', '.join(value) if value else ''
LabelColumn(value) == Join(CommaSpace, IterParts(value))

ConfigFields ==
    {"plantgro_variables", "overview_variables", "calibration_method",
     "short_label", "long_label"}

\* df[field] = ... for the five fields, on every row of the folder's table.
TagRow(r, code, config) ==
    [treatment |-> r.treatment, cultivar |-> r.cultivar, variable |-> r.variable,
     value_simulated |-> r.value_simulated, value_measured |-> r.value_measured,
     experiment |-> r.experiment, position |-> r.position,
     calibration_code |-> code,
     plantgro_variables |-> LabelColumn(config["plantgro_variables"]),
     overview_variables |-> LabelColumn(config["overview_variables"]),
     calibration_method |-> LabelColumn(config["calibration_method"]),
     short_label |-> LabelColumn(config["short_label"]),
     long_label |-> LabelColumn(config["long_label"])]

\* overview_df_raw.dropna(subset=['value_measured'])
DropNaMeasured(rows) == SelectSeq(rows, LAMBDA r : r.value_measured # Nothing)

\* treatment_cultivar.astype(str).str[:4]
Prefix4(name) ==
    CASE name = <<"WW23_G-1">> -> "WW23"
      [] name = <<"DR22_G-2">> -> "DR22"
      [] name = <<"HT22_G-3">> -> "HT22"
      [] OTHER -> "?"

\* The treatments_dic argument; .map() gives NaN for a key it does not hold.
treatments_dic(key) ==
    CASE key = "WW23" -> Some("WW-23")
      [] key = "DR22" -> Some("DR-22")
      [] OTHER -> Nothing

\* The variable_name_mapping argument.
variable_name_mapping(v) ==
    CASE v = <<"Yield", "kg/ha">> -> Some("Grain yield (kg/ha)")
      [] v = <<"Anthesis">> -> Some("Anthesis (DAP)")
      [] OTHER -> Nothing

\* The renaming and relabelling of the combined table.
Relabel(r) ==
    [calibration_code |-> r.calibration_code,
     treatment_cultivar |-> r.treatment,
     treatment |-> treatments_dic(Prefix4(r.treatment)),
     cultivar |-> r.cultivar,
     variable |-> variable_name_mapping(r.variable),
     value_simulated |-> r.value_simulated, value_measured |-> r.value_measured,
     experiment |-> r.experiment, position |-> r.position,
     plantgro_variables |-> r.plantgro_variables,
     overview_variables |-> r.overview_variables,
     calibration_method |-> r.calibration_method,
     short_label |-> r.short_label, long_label |-> r.long_label]

\* pd.concat(list_overview_df)
RECURSIVE Flatten(_)
Flatten(tables) ==
    IF tables = <<>> THEN <<>> ELSE Head(tables) \o Flatten(Tail(tables))

----------------------------------------------------------------------------
(* Inputs of the load_and_process_overview study: at most MaxFolders       *)
(* calibration folders, each with an existing OVERVIEW.OUT and a           *)
(* config.yaml that parses (valid) or not.                                 *)

MaxFolders == 2

CodeOf(i) == IF i = 1 THEN "BM-ts" ELSE IF i = 2 THEN "LAI-ts" ELSE "No-ts"

FolderOverviews ==
    { OverviewBlock(1, TRUE, TRUE, TRUE, <<L_HDR, L_DASH, L_ROW1, L_ROW2, L_BLANK>>),
      OverviewBlock(2, TRUE, TRUE, TRUE, <<L_HDR, L_ROW1, L_MAIN>>)
        \o OverviewBlock(3, TRUE, FALSE, FALSE, <<L_HDR, L_ROW1, L_BLANK>>) }

ShortLabels == {YList(<<<<"B", "M">>>>), YStr(<<"B", "M">>), YStr(<<"B">>), YNone}
LongLabels == {YList(<<<<"B", "i", "o">>>>), YStr(<<"B", "i", "o">>)}
Methods == {YList(<<<<"t", "s">>, <<"n", "o">>>>), YList(<<<<"t", "s">>>>)}

Configs ==
    {[valid |-> v,
      fields |-> [f \in ConfigFields |->
                    CASE f = "short_label" -> sl
                      [] f = "long_label" -> ll
                      [] f = "calibration_method" -> cm
                      [] OTHER -> YList(<<<<"L", "A", "I">>>>)]] :
        v \in BOOLEAN, sl \in ShortLabels, ll \in LongLabels, cm \in Methods}

Folders(i) ==
    {[code |-> CodeOf(i), overview |-> o, config |-> c] :
        o \in FolderOverviews, c \in Configs}

RECURSIVE FolderLists(_)
FolderLists(n) ==
    IF n = 0 THEN {<<>>}
    ELSE {Append(fs, f) : fs \in FolderLists(n - 1), f \in Folders(n)}

InitLoad ==
    /\ pc = "loop"
    /\ folders \in UNION {FolderLists(n) : n \in 1..MaxFolders}
    /\ code_idx = 0
    /\ config_file = Nothing
    /\ list_overview_df = <<>>
    /\ overview_data = <<>>
    /\ loRestIdle

\* One turn of `for calibration_code in calibration_code_list`.
ProcessCalibrationCode ==
    /\ pc = "loop"
    /\ code_idx < Len(folders)
    /\ LET f == folders[code_idx + 1]
           r == extract_simulation_data(f.overview)
           \* yaml.safe_load: on a YAMLError the name keeps its old binding
           cfg == IF f.config.valid THEN Some(f.config.fields) ELSE config_file
       IN IF r.raised \/ cfg = Nothing
          THEN /\ pc' = "raised"
               /\ UNCHANGED <<code_idx, config_file, list_overview_df>>
          ELSE /\ pc' = "loop"
               /\ code_idx' = code_idx + 1
               /\ config_file' = cfg
               /\ list_overview_df' =
                     Append(list_overview_df,
                         LET kept == DropNaMeasured(r.all_data)
                         IN [i \in 1..Len(kept) |-> TagRow(kept[i], f.code, Get(cfg))])
    /\ UNCHANGED <<folders, overview_data, loRest>>

\* After the loop: concat, rename, relabel, return.
CombineOverview ==
    /\ pc = "loop"
    /\ code_idx = Len(folders)
    /\ pc' = "done"
    /\ overview_data' =
          LET all == Flatten(list_overview_df)
          IN [i \in 1..Len(all) |-> Relabel(all[i])]
    /\ UNCHANGED <<folders, code_idx, config_file, list_overview_df, loRest>>

NextLoad == ProcessCalibrationCode \/ CombineOverview

SpecLoad == InitLoad /\ [][NextLoad]_vars

----------------------------------------------------------------------------
(* What the spec says of load_and_process_overview. *)

\* The value a config.yaml gives a field: the string, or the strings of the
\* list joined.
ValueOf(value) ==
    IF value.kind = "str" THEN value.items[1] ELSE LabelColumnOfList(value)

RowsOfCode(code) == SelectSeq(overview_data, LAMBDA r : r.calibration_code = code)

\* C3: every record of the returned table carries the calibration_code of
\* the folder whose OVERVIEW.OUT it was parsed from (the records of a code are
\* the measured rows of that folder's file), and its short_label, long_label
\* and calibration_method are those of that folder's config.yaml, be the YAML
\* value a list of strings or a single string.
C3_LabelsOfOwnFolder ==
    pc = "done" =>
        /\ \A i \in 1..Len(overview_data) :
              \E n \in 1..Len(folders) : overview_data[i].calibration_code = folders[n].code
        /\ \A n \in 1..Len(folders) :
              LET f == folders[n]
                  mine == RowsOfCode(f.code)
                  parsed == DropNaMeasured(extract_simulation_data(f.overview).all_data)
              IN /\ Len(mine) = Len(parsed)
                 /\ \A i \in 1..Len(mine) :
                       /\ mine[i].treatment_cultivar = parsed[i].treatment
                       /\ mine[i].value_measured = parsed[i].value_measured
                       /\ f.config.valid =>
                             /\ mine[i].short_label = ValueOf(f.config.fields["short_label"])
                             /\ mine[i].long_label = ValueOf(f.config.fields["long_label"])
                             /\ mine[i].calibration_method =
                                   ValueOf(f.config.fields["calibration_method"])

----------------------------------------------------------------------------
(* wht_filedata_to_dataframe *)

\* token[1:] for a token that starts with '@'.
StripAt(tok) ==
    CASE tok = "@TRNO" -> "TRNO"
      [] tok = "@YEAR" -> "YEAR"
      [] tok = "@VARIABLE" -> "VARIABLE"
      [] OTHER -> ""

\* The header is kept whole, its '@' included.
WholeHeader(ts) == ts

\* header_line[1:].split(): the header's tokens without the leading '@'.
HeaderColumns(ts) ==
    IF ts[1] = "@" THEN Tail(ts) ELSE <<StripAt(ts[1])>> \o Tail(ts)

\* line.startswith('@')
IsWhtHeader(l) == RawStartsWith(l, AtTokens)

\* line.strip() and not line.startswith(('*', '!', '@'))
IsWhtDataLine(l) ==
    ~IsBlank(l) /\ ~RawStartsWith(l, StarTokens \cup BangTokens \cup AtTokens)

\* A row is taken although it has fewer values than there are columns.
RowFitsOrShort(values, columns) == Len(values) <= Len(columns)

\* len(values) == len(columns)
RowFits(values, columns) == Len(values) = Len(columns)

\* wht_filedata_to_dataframe(file_path): [raised, columns, data].
wht_filedata_to_dataframe(ls) ==
    LET hs == {i \in 1..Len(ls) : IsWhtHeader(ls[i])}
        failed == [raised |-> TRUE, columns |-> <<>>, data |-> <<>>]
    IN IF hs = {} THEN failed
       ELSE LET columns == HeaderColumns(ls[Min(hs)].toks)
                data_lines == SelectSeq(ls, IsWhtDataLine)
            IN IF \E i \in 1..Len(data_lines) : ~RowFits(data_lines[i].toks, columns)
               THEN failed
               ELSE [raised |-> FALSE, columns |-> columns,
                     data |-> [i \in 1..Len(data_lines) |-> data_lines[i].toks]]

----------------------------------------------------------------------------
(* Inputs of the wht_filedata_to_dataframe study: every file of at most    *)
(* MaxWhtLines lines drawn from WhtLineKinds.                              *)

MaxWhtLines == 4

W_HDR3 == mk(FALSE, <<"@TRNO", "DATE", "LWAD">>)
W_HDR2 == mk(FALSE, <<"@", "TRNO", "DATE">>)
W_HDR_INDENTED == mk(TRUE, <<"@TRNO", "DATE">>)
W_STAR == mk(FALSE, <<"*EXP", "DATA">>)
W_STAR_INDENTED == mk(TRUE, <<"*", "x", "y">>)
W_BANG == mk(FALSE, <<"!c">>)
W_ROW3 == mk(TRUE, <<"1", "2022336", "5">>)
W_ROW2 == mk(TRUE, <<"1", "2022336">>)

WhtLineKinds ==
    {W_HDR3, W_HDR2, W_HDR_INDENTED, W_STAR, W_STAR_INDENTED, W_BANG, W_ROW3,
     W_ROW2, L_BLANK}

InitWht ==
    /\ pc = "start"
    /\ wht_lines \in SeqsUpTo(WhtLineKinds, MaxWhtLines)
    /\ wht_df = Idle
    /\ whRestIdle

\* A call of wht_filedata_to_dataframe(file_path) on the file.
WhtFiledataToDataframe ==
    /\ pc = "start"
    /\ LET r == wht_filedata_to_dataframe(wht_lines)
       IN /\ pc' = IF r.raised THEN "raised" ELSE "done"
          /\ wht_df' = IF r.raised THEN Idle
                        ELSE [columns |-> r.columns, data |-> r.data]
    /\ UNCHANGED <<wht_lines, whRest>>

NextWht == WhtFiledataToDataframe

SpecWht == InitWht /\ [][NextWht]_vars

----------------------------------------------------------------------------
(* What the spec says of wht_filedata_to_dataframe. *)

StartsWithChar(l, c) ==
    /\ ~l.indent
    /\ l.toks # <<>>
    /\ l.toks[1] \in (CASE c = "@" -> AtTokens
                         [] c = "*" -> StarTokens
                         [] c = "!" -> BangTokens)

WhtHeaders == {i \in 1..Len(wht_lines) : StartsWithChar(wht_lines[i], "@")}

WhtNoHeader == WhtHeaders = {}

\* The number of columns of the first '@' header.
WhtColumnCount ==
    LET ts == wht_lines[Min(WhtHeaders)].toks
    IN IF ts[1] = "@" THEN Len(ts) - 1 ELSE Len(ts)

\* A non-blank line not starting with '*', '!' or '@' whose token count
\* differs from the number of columns.
WhtBadRow ==
    /\ ~WhtNoHeader
    /\ \E i \in 1..Len(wht_lines) :
          LET l == wht_lines[i]
          IN /\ l.toks # <<>>
             /\ ~StartsWithChar(l, "*") /\ ~StartsWithChar(l, "!")
             /\ ~StartsWithChar(l, "@")
             /\ Len(l.toks) # WhtColumnCount

\* C10: wht_filedata_to_dataframe raises when the file has no line starting
\* with '@', and raises when a non-blank line not starting with '*', '!' or
\* '@' has a token count different from the number of columns of the first
\* '@' header; in both cases no table, not even a partial one, is returned.
C10_MalformedFails ==
    (pc # "start" /\ (WhtNoHeader \/ WhtBadRow)) => (pc = "raised" /\ wht_df = Idle)

\* C10 witness: a file with a header and a fitting row before a row of the
\* wrong length has been refused as a whole.
C10_Witness ==
    /\ pc = "raised"
    /\ ~WhtNoHeader
    /\ WhtBadRow
    /\ \E i \in 1..Len(wht_lines) :
          IsWhtDataLine(wht_lines[i]) /\ Len(wht_lines[i].toks) = WhtColumnCount

\* The lines that are neither blank nor start with '*', '!' or '@'.
WhtDataIndices ==
    {i \in 1..Len(wht_lines) :
        /\ wht_lines[i].toks # <<>>
        /\ ~StartsWithChar(wht_lines[i], "*")
        /\ ~StartsWithChar(wht_lines[i], "!")
        /\ ~StartsWithChar(wht_lines[i], "@")}

\* The elements of a set of numbers, smallest first.
InOrder(S) ==
    CHOOSE f \in [1..Cardinality(S) -> S] :
        \A a, b \in 1..Cardinality(S) : a < b => f[a] < f[b]

\* '@' + name
AtPrefixed(name) ==
    CASE name = "TRNO" -> "@TRNO"
      [] name = "YEAR" -> "@YEAR"
      [] name = "VARIABLE" -> "@VARIABLE"
      [] OTHER -> "?"

\* The columns are the tokens of the header without its leading '@'.
NamedByHeader(columns, ts) ==
    IF ts[1] = "@" THEN columns = Tail(ts)
    ELSE /\ Len(columns) = Len(ts)
         /\ AtPrefixed(columns[1]) = ts[1]
         /\ Tail(columns) = Tail(ts)

\* C11: wht_filedata_to_dataframe on a well-formed file (a '@' header, every
\* data line with as many tokens as the header names columns) returns exactly
\* one row per data line (non-blank, not starting with '*', '!' or '@'), in
\* file order, with columns named by the tokens of the first '@' header line
\* without its leading '@', and with every value kept as the original token.
C11_OneRowPerDataLine ==
    (pc # "start" /\ ~WhtNoHeader /\ ~WhtBadRow) =>
        /\ pc = "done"
        /\ NamedByHeader(wht_df.columns, wht_lines[Min(WhtHeaders)].toks)
        /\ Len(wht_df.data) = Cardinality(WhtDataIndices)
        /\ \A k \in 1..Len(wht_df.data) :
              wht_df.data[k] = wht_lines[InOrder(WhtDataIndices)[k]].toks

\* C11 witness: a table of two different rows has been returned for a file
\* whose header is not its first line.
C11_Witness ==
    /\ pc = "done"
    /\ Min(WhtHeaders) > 1
    /\ Len(wht_df.data) = 2
    /\ wht_df.data[1] # wht_df.data[2]

----------------------------------------------------------------------------
(* read_growth_file and extract_treatment_info_plantgrowth *)

\* lines[a:b] as Python slices a list (a may be -1, b is never negative).
PySlice(ls, a, b) ==
    LET n == Len(ls)
        lo == IF a < 0 THEN (IF n + a < 0 THEN 0 ELSE n + a)
              ELSE (IF a > n THEN n ELSE a)
        hi == IF b > n THEN n ELSE b
    IN SubSeq(ls, lo + 1, hi)

\* pd.DataFrame(data, columns=headers): refused unless the longest row has as
\* many values as there are headers (shorter rows are padded with None).
FrameFits(data, headers) ==
    data = <<>> \/ \E i \in 1..Len(data) :
        /\ Len(data[i]) = Len(headers)
        /\ \A j \in 1..Len(data) : Len(data[j]) <= Len(headers)

\* df.apply(pd.to_numeric) raises on a token that is no number.
AllNumeric(data) ==
    \A i \in 1..Len(data) : \A j \in 1..Len(data[i]) : NumberOf(data[i][j]) # Nothing

\* A row of the table: column name -> number, Nothing (NaN) where padded.
GrowthRow(values, headers) ==
    [c \in {headers[j] : j \in 1..Len(headers)} |->
        LET j == CHOOSE x \in 1..Len(headers) : headers[x] = c
        IN IF j <= Len(values) THEN NumberOf(values[j]) ELSE Nothing]

\* read_growth_file(file_path, treatment_range): [raised, columns, rows].
read_growth_file(ls, rng) ==
    LET treatment_lines == PySlice(ls, rng.start - 1, rng.end)
        hs == {i \in 1..Len(treatment_lines) : RawStartsWith(treatment_lines[i], AtTokens)}
        failed == [raised |-> TRUE, columns |-> {}, rows |-> <<>>]
    IN IF hs = {} THEN failed
       ELSE LET headers == treatment_lines[Min(hs)].toks
                rest == SubSeq(treatment_lines, Min(hs) + 1, Len(treatment_lines))
                data == [i \in 1..Len(rest) |-> rest[i].toks]
            IN IF ~FrameFits(data, headers) \/ ~AllNumeric(data) THEN failed
               ELSE [raised |-> FALSE,
                     columns |-> {headers[j] : j \in 1..Len(headers)},
                     rows |-> [i \in 1..Len(data) |-> GrowthRow(data[i], headers)]]

\* The local variables of extract_treatment_info_plantgrowth.
InfoStart ==
    [treatment_number_name |-> <<>>, treatment_experiment_name |-> <<>>,
     experiment_info |-> Nothing, raised |-> FALSE]

\* line.split(':')[1].split()[0]: Nothing on IndexError.
ExperimentCode(ts) ==
    IF SplitColon1(ts) = Nothing \/ Get(SplitColon1(ts)) = <<>> THEN Nothing
    ELSE Some(Get(SplitColon1(ts))[1])

\* The body of `for i in range(start_line, end_line)` for one line.
InfoLine(l, st) ==
    LET ts == l.toks
        st1 == IF StrippedStartsWith(l, "EXPERIMENT")
               THEN IF ExperimentCode(ts) = Nothing
                    THEN [st EXCEPT !.raised = TRUE]
                    ELSE [st EXCEPT !.experiment_info = ExperimentCode(ts)]
               ELSE st
    IN IF st1.raised \/ ~StrippedStartsWith(l, "TREATMENT") THEN st1
       ELSE IF Len(ts) < 2 \/ TreatmentName(ts) = Nothing
                 \/ st1.experiment_info = Nothing
            THEN [st1 EXCEPT !.raised = TRUE]
            ELSE [st1 EXCEPT
                    !.treatment_number_name =
                        DictSet(@, Get(TreatmentName(ts)), ts[2]),
                    !.treatment_experiment_name =
                        DictSet(@, Get(TreatmentName(ts)), Get(st1.experiment_info))]

RECURSIVE InfoScan(_, _, _, _)
InfoScan(ls, i, e, st) ==
    IF st.raised \/ i >= e THEN st
    ELSE InfoScan(ls, i + 1, e, InfoLine(Line(ls, i), st))

RECURSIVE InfoLoop(_, _, _, _)
InfoLoop(ls, d, k, st) ==
    IF st.raised \/ k > Len(d) THEN st
    ELSE InfoLoop(ls, d, k + 1, InfoScan(ls, d[k].val.start, d[k].val.end, st))

\* extract_treatment_info_plantgrowth(file_path, treatment_dict)
extract_treatment_info_plantgrowth(ls, treatment_dict) ==
    InfoLoop(ls, treatment_dict, 1, InfoStart)

----------------------------------------------------------------------------
(* Tables (pandas DataFrame): [columns |-> set of names, rows |-> sequence *)
(* of rows]; a row is a function column -> cell and a cell is Some(value)  *)
(* or Nothing (NaN, None).                                                 *)

\* row[c] = v for every column c of `extra`.
SetColumns(row, extra) ==
    [c \in DOMAIN row \cup DOMAIN extra |->
        IF c \in DOMAIN extra THEN extra[c] ELSE row[c]]

\* A row inside a table that has the columns cols: NaN where it has none.
Pad(row, cols) == [c \in cols |-> IF c \in DOMAIN row THEN row[c] ELSE Nothing]

\* df.loc[:, cols] on one row
Project(row, cols) == [c \in cols |-> row[c]]

\* pd.concat(frames, ignore_index=True)
Concat(frames) ==
    LET cols == UNION {frames[k].columns : k \in 1..Len(frames)}
        padded == [k \in 1..Len(frames) |->
                     [i \in 1..Len(frames[k].rows) |-> Pad(frames[k].rows[i], cols)]]
    IN [columns |-> cols, rows |-> Flatten(padded)]

----------------------------------------------------------------------------
(* Dates written as YYYYDDD. A DATE cell of the simulated table is Some(n) *)
(* for the seven-digit text of n, Nothing for any other text.              *)

\* calendar.isleap
IsLeap(y) == (y % 4 = 0 /\ y % 100 # 0) \/ y % 400 = 0

DaysIn(y) == IF IsLeap(y) THEN 366 ELSE 365

\* The number a seven-digit token spells, Nothing for other tokens.
DateOfToken(tok) ==
    IF NumberOf(tok) # Nothing /\ Get(NumberOf(tok)) >= 1000000
           /\ Get(NumberOf(tok)) <= 9999999
    THEN NumberOf(tok) ELSE Nothing

\* pd.to_datetime(text, format='%Y%j') accepts the text.
ValidDate(d) ==
    /\ d # Nothing
    /\ Get(d) % 1000 >= 1
    /\ Get(d) % 1000 <= DaysIn(Get(d) \div 1000)

\* Days from the start of the proleptic Gregorian calendar to the date n.
DayNumber(n) ==
    LET y == (n \div 1000) - 1
    IN 365 * y + (y \div 4) - (y \div 100) + (y \div 400) + (n % 1000)

\* (a - b).days
DaysBetween(a, b) == DayNumber(a) - DayNumber(b)

----------------------------------------------------------------------------
(* load_prepare_time_series_data (ts_get_data.py): the simulated table     *)

\* token.split('_')
SplitToken(tok) ==
    CASE tok = "WW23_G-1" -> <<"WW23", "G-1">>
      [] tok = "WW23_G-2" -> <<"WW23", "G-2">>
      [] tok = "DR22_G-1" -> <<"DR22", "G-1">>
      [] tok = "DR22_G-2" -> <<"DR22", "G-2">>
      [] tok = "HT22_G-3" -> <<"HT22", "G-3">>
      [] OTHER -> <<tok>>

\* name.split('_') for a name of several tokens: the parts, each the tokens
\* between two underscores.
RECURSIVE SplitUnderscore(_)
SplitUnderscore(name) ==
    IF name = <<>> THEN <<<<>>>>
    ELSE LET ps == SplitToken(name[1])
             rest == SplitUnderscore(Tail(name))
         IN [i \in 1..(Len(ps) - 1) |-> <<ps[i]>>]
                \o <<(IF ps[Len(ps)] = "" THEN <<>> ELSE <<ps[Len(ps)]>>) \o rest[1]>>
                \o Tail(rest)

\* short_label_str: the first label of a list ('' for an empty list), else
\* the value itself.
ShortLabelStr(short_label) ==
    IF short_label.kind = "list"
    THEN Some(IF short_label.items = <<>> THEN <<>> ELSE short_label.items[1])
    ELSE IF short_label.kind = "str" THEN Some(short_label.items[1]) ELSE Nothing

\* One pass of `for genotype in treatment_dict`: the run's table with its
\* metadata columns, Nothing when a statement of the pass raises.
RunFrame(ls, genotype, rng, tnn, ten, label) ==
    LET df == read_growth_file(ls, rng)
        parts == SplitUnderscore(genotype)
    IN IF df.raised \/ Len(parts) # 2 \/ genotype \notin DictKeys(tnn)
       THEN Nothing
       ELSE LET extra == [treatment |-> Some(parts[1]),
                          genotype |-> Some(parts[2]),
                          sim_id |-> Some(genotype),
                          treatment_number |-> Some(DictGet(tnn, genotype)),
                          experiment_id |-> Some(DictGet(ten, genotype)),
                          short_label |-> label]
            IN Some([columns |-> df.columns \cup DOMAIN extra,
                     rows |-> [i \in 1..Len(df.rows) |->
                                  SetColumns(df.rows[i], extra)]])

RECURSIVE RunFrames(_, _, _, _, _, _, _)
RunFrames(ls, td, k, tnn, ten, label, acc) ==
    IF k > Len(td) THEN Some(acc)
    ELSE LET f == RunFrame(ls, td[k].key, td[k].val, tnn, ten, label)
         IN IF f = Nothing THEN Nothing
            ELSE RunFrames(ls, td, k + 1, tnn, ten, label, Append(acc, Get(f)))

\* str(@YEAR) + str(DOY).zfill(3): the seven digits of a date when both
\* columns hold integers; a column with a NaN holds floats, whose text has a
\* decimal point.
DateText(row, integers) ==
    IF integers /\ Get(row["@YEAR"]) >= 1000 /\ Get(row["@YEAR"]) <= 9999
           /\ Get(row["DOY"]) >= 0 /\ Get(row["DOY"]) <= 999
    THEN Some(Get(row["@YEAR"]) * 1000 + Get(row["DOY"]))
    ELSE Nothing

essential_cols_plantgro ==
    {"DATE", "DAS", "DAP", "treatment", "genotype", "sim_id",
     "treatment_number", "experiment_id", "short_label"}

\* What the first part of the function leaves when a statement of it raises.
PlantGroFailed ==
    [raised |-> TRUE, tnn |-> <<>>, ten |-> <<>>, plantgro_df |-> <<>>,
     dap0_dates |-> {}]

\* Lines 71-94: the DATE column, the rows of the treatment, the columns kept
\* and the planting dates, from the concatenated table `all`.
PlantGroSelected(all, tnn, ten, variable_name, treatment) ==
    IF ~({"@YEAR", "DOY", "DAS", "DAP"} \subseteq all.columns) THEN PlantGroFailed
    ELSE
    LET integers == \A i \in 1..Len(all.rows) :
                        /\ all.rows[i]["@YEAR"] # Nothing
                        /\ all.rows[i]["DOY"] # Nothing
        kept == SelectSeq(all.rows, LAMBDA r : r["treatment"] = Some(treatment))
        columns == (all.columns \ {"@YEAR", "DOY"}) \cup {"DATE"}
        essential == essential_cols_plantgro \cup
            (IF variable_name # Nothing /\ Get(variable_name) \in columns
             THEN {Get(variable_name)} ELSE {})
        rows == [i \in 1..Len(kept) |->
                   Project(SetColumns(kept[i],
                               [DATE |-> DateText(kept[i], integers)]),
                           essential)]
        dap0 == {rows[i]["DATE"] :
                   i \in {j \in 1..Len(rows) : rows[j]["DAP"] = Some(0)}}
    IN IF \E d \in dap0 : ~ValidDate(d) THEN PlantGroFailed
       ELSE [raised |-> FALSE, tnn |-> tnn, ten |-> ten,
             plantgro_df |-> [columns |-> essential, rows |-> rows],
             dap0_dates |-> {Get(d) : d \in dap0}]

\* Lines 58-70: one table per run of the file, concatenated.
PlantGroOfRuns(ls, td, tnn, ten, short_label, variable_name, treatment) ==
    LET fs == RunFrames(ls, td, 1, tnn, ten, ShortLabelStr(short_label), <<>>)
    IN IF fs = Nothing \/ Get(fs) = <<>> THEN PlantGroFailed
       ELSE PlantGroSelected(Concat(Get(fs)), tnn, ten, variable_name, treatment)

\* Line 56: the number and the experiment of every run of the file.
PlantGroOfInfo(ls, td, short_label, variable_name, treatment) ==
    LET info == extract_treatment_info_plantgrowth(ls, td)
    IN IF info.raised THEN PlantGroFailed
       ELSE PlantGroOfRuns(ls, td, info.treatment_number_name,
                           info.treatment_experiment_name, short_label,
                           variable_name, treatment)

\* Lines 39-94: [raised, tnn, ten, plantgro_df, dap0_dates].
PlantGroTable(ls, short_label, variable_name, treatment) ==
    LET td == simulations_lines(ls)
    IN IF td = Nothing THEN PlantGroFailed
       ELSE PlantGroOfInfo(ls, Get(td), short_label, variable_name, treatment)

----------------------------------------------------------------------------
(* load_prepare_time_series_data: the measurement table                    *)

\* set(treatment_experiment_name.values())
unique_wht(ten) == {ten[i].val : i \in 1..Len(ten)}

\* The orders in which a for loop may meet the elements of a set.
Orders(S) ==
    {o \in [1..Cardinality(S) -> S] : \A i, j \in 1..Cardinality(S) : o[i] = o[j] => i = j}

\* One pass of `for wht in unique_wht` (lines 100-103): the file's table with
\* its experiment_id column, Nothing when the file is missing or refused.
WhtFrame(files, wht) ==
    IF wht \notin DOMAIN files THEN Nothing
    ELSE LET r == wht_filedata_to_dataframe(files[wht])
             names == {r.columns[j] : j \in 1..Len(r.columns)}
         IN IF r.raised THEN Nothing
            ELSE Some([columns |-> names \cup {"experiment_id"},
                       rows |-> [i \in 1..Len(r.data) |->
                           SetColumns(
                               [c \in names |->
                                   Some(r.data[i][CHOOSE j \in 1..Len(r.columns) :
                                                      r.columns[j] = c])],
                               [experiment_id |-> Some(wht)])]])

\* Lines 96-104 for one order of the loop: [raised, table].
WhtTable(files, order) ==
    LET fs == [k \in 1..Len(order) |-> WhtFrame(files, order[k])]
    IN IF order = <<>> \/ \E k \in 1..Len(order) : fs[k] = Nothing
       THEN [raised |-> TRUE, table |-> <<>>]
       ELSE [raised |-> FALSE,
             table |-> Concat([k \in 1..Len(order) |-> Get(fs[k])])]

\* Lines 107-118: one mapping row per simulated run, Nothing when int() or
\* the unpacking of split('_') raises.
mapping_rows(tnn, ten) ==
    IF \E i \in 1..Len(ten) :
           \/ ten[i].key \notin DictKeys(tnn)
           \/ NumberOf(DictGet(tnn, ten[i].key)) = Nothing
           \/ Len(SplitUnderscore(ten[i].key)) # 2
    THEN Nothing
    ELSE Some([i \in 1..Len(ten) |->
                 [experiment_id |-> Some(ten[i].val),
                  treatment_number |-> NumberOf(DictGet(tnn, ten[i].key)),
                  sim_id |-> Some(ten[i].key),
                  treatment |-> Some(SplitUnderscore(ten[i].key)[1]),
                  genotype |-> Some(SplitUnderscore(ten[i].key)[2])]])

\* The join's rule on TRNO alone.
SameRunByNumber(l, m) == l["TRNO"] = m["treatment_number"]

\* left_on=['experiment_id', 'TRNO'], right_on=['experiment_id', 'treatment_number']
SameRun(l, m) ==
    /\ l["experiment_id"] = m["experiment_id"]
    /\ l["TRNO"] = m["treatment_number"]

mapping_columns == {"treatment_number", "sim_id", "treatment", "genotype"}

\* The rows a left merge gives for one left row and the right rows ms that
\* match it (in the right table's order): one per matching row, or one with
\* NaN in the right table's columns.
LeftJoinRow(l, ms, new) ==
    IF ms = <<>> THEN <<SetColumns(l, [c \in new |-> Nothing])>>
    ELSE [k \in 1..Len(ms) |-> SetColumns(l, Project(ms[k], new))]

\* left.merge(right, how='left'), matches[i] being the right rows that match
\* the i-th left row.
LeftJoin(left, matches, new) ==
    Flatten([i \in 1..Len(left) |-> LeftJoinRow(left[i], matches[i], new)])

\* Lines 106-132: [raised, table]. The measurement files' headers have none
\* of the mapping's column names.
MappedTable(wht, tnn, ten, treatment) ==
    LET failed == [raised |-> TRUE, table |-> <<>>]
        mapping == mapping_rows(tnn, ten)
    IN IF mapping = Nothing \/ "TRNO" \notin wht.columns
           \/ \E i \in 1..Len(wht.rows) :
                  \/ wht.rows[i]["TRNO"] = Nothing
                  \/ NumberOf(Get(wht.rows[i]["TRNO"])) = Nothing
       THEN failed
       ELSE LET typed == [i \in 1..Len(wht.rows) |->
                            SetColumns(wht.rows[i],
                                [TRNO |-> NumberOf(Get(wht.rows[i]["TRNO"]))])]
                merged == LeftJoin(typed,
                              [i \in 1..Len(typed) |->
                                  SelectSeq(Get(mapping), LAMBDA m : SameRun(typed[i], m))],
                              mapping_columns)
            IN [raised |-> FALSE,
                table |-> [columns |-> wht.columns \cup mapping_columns,
                           rows |-> SelectSeq(merged,
                               LAMBDA r : r["treatment"] = Some(treatment))]]

\* drop_duplicates(subset=['DATE', 'treatment', 'genotype']): the first row of
\* every key is kept.
SameTimingKey(a, b) ==
    a["DATE"] = b["DATE"] /\ a["treatment"] = b["treatment"]
        /\ a["genotype"] = b["genotype"]

timing_df(rows) ==
    LET first == {i \in 1..Len(rows) :
                     \A j \in 1..(i - 1) : ~SameTimingKey(rows[i], rows[j])}
        order == Ascending(first)
    IN [k \in 1..Len(order) |-> rows[order[k]]]

\* on=['DATE', 'treatment', 'genotype']: the measured row's DATE is a token,
\* the simulated row's DATE the text DateText made.
SameTiming(l, t) ==
    /\ l["DATE"] # Nothing /\ t["DATE"] # Nothing
    /\ DateOfToken(Get(l["DATE"])) = t["DATE"]
    /\ l["treatment"] = t["treatment"]
    /\ l["genotype"] = t["genotype"]

\* The latest of the dates with DAP = 0.
LatestZeroDap(dates) == IF dates = {} THEN Nothing ELSE Some(Max(dates))

\* dap0_dates_dt.min(): NaT when there is no date.
reference_zero_dap_date(dates) == IF dates = {} THEN Nothing ELSE Some(Min(dates))

\* Lines 152-155 on one row: a DAP that is null becomes the days from the
\* reference to the row's date (NaN when either is NaT).
FillDap(row, reference) ==
    IF row["DAP"] # Nothing THEN row
    ELSE SetColumns(row,
             [DAP |-> IF row["DATE_dt"] = Nothing \/ reference = Nothing
                      THEN Nothing
                      ELSE Some(DaysBetween(Get(row["DATE_dt"]), Get(reference)))])

\* Lines 134-156: [raised, table]. The measurement files' headers have
\* neither DAS nor DAP.
TimedTable(wht, plantgro, dates, label) ==
    LET failed == [raised |-> TRUE, table |-> <<>>]
    IN IF "DATE" \notin wht.columns
           \/ \E i \in 1..Len(wht.rows) :
                  /\ wht.rows[i]["DATE"] # Nothing
                  /\ ~ValidDate(DateOfToken(Get(wht.rows[i]["DATE"])))
       THEN failed
       ELSE LET merged == LeftJoin(wht.rows,
                              [i \in 1..Len(wht.rows) |->
                                  SelectSeq(timing_df(plantgro.rows),
                                            LAMBDA t : SameTiming(wht.rows[i], t))],
                              {"DAS", "DAP"})
                dated == [i \in 1..Len(merged) |->
                            SetColumns(merged[i],
                                [DATE_dt |-> IF merged[i]["DATE"] = Nothing
                                             THEN Nothing
                                             ELSE DateOfToken(Get(merged[i]["DATE"]))])]
                reference == reference_zero_dap_date(dates)
            IN [raised |-> FALSE,
                table |-> [columns |-> wht.columns \cup {"DAS", "DAP", "DATE_dt", "short_label"},
                           rows |-> [i \in 1..Len(dated) |->
                               SetColumns(FillDap(dated[i], reference),
                                          [short_label |-> label])]]]

essential_cols_wht ==
    {"TRNO", "DATE", "experiment_id", "sim_id", "treatment", "genotype",
     "DAS", "DAP", "short_label"}

\* The selection takes every column asked for, present or not.
AllColumns(wanted, columns) == wanted

\* [col for col in essential_cols_wht if col in wht_full_df.columns]
ExistingColumns(wanted, columns) == wanted \cap columns

\* rank(method='dense', ascending=True) of the row's DAP inside its genotype
DenseRank(rows, i) ==
    1 + Cardinality({Get(rows[j]["DAP"]) : j \in
            {x \in 1..Len(rows) : /\ rows[x]["genotype"] = rows[i]["genotype"]
                                  /\ Get(rows[x]["DAP"]) < Get(rows[i]["DAP"])}})

\* pd.to_numeric(cell, errors='coerce') > 0
Positive(cell) ==
    cell # Nothing /\ NumberOf(Get(cell)) # Nothing /\ Get(NumberOf(Get(cell))) > 0

\* Lines 139-146 and 158-183: [raised, table].
SelectedTable(wht, plantgro, variable_name) ==
    LET wanted == essential_cols_wht \cup
            (IF variable_name # Nothing /\ Get(variable_name) \in plantgro.columns
             THEN {Get(variable_name)} ELSE {})
        columns == ExistingColumns(wanted, wht.columns)
    IN IF ~(columns \subseteq wht.columns) THEN [raised |-> TRUE, table |-> <<>>]
       ELSE
       LET selected == [i \in 1..Len(wht.rows) |-> Project(wht.rows[i], columns)]
           has == variable_name # Nothing /\ Get(variable_name) \in columns
           nonnull == IF has
                      THEN SelectSeq(selected, LAMBDA r : r[Get(variable_name)] # Nothing)
                      ELSE <<>>
           rows == IF nonnull = <<>> THEN <<>>
                   ELSE SelectSeq(selected, LAMBDA r : Positive(r[Get(variable_name)]))
       IN IF \E i \in 1..Len(rows) : rows[i]["DAP"] = Nothing
          THEN [raised |-> TRUE, table |-> <<>>]
          ELSE [raised |-> FALSE,
                table |-> [columns |-> columns \cup {"sampling_id"},
                           rows |-> [i \in 1..Len(rows) |->
                               SetColumns(
                                   [c \in columns |->
                                       IF has /\ c = Get(variable_name)
                                       THEN NumberOf(Get(rows[i][c]))
                                       ELSE rows[i][c]],
                                   [sampling_id |-> Some(DenseRank(rows, i))])]]]

----------------------------------------------------------------------------
(* Inputs of the load_prepare_time_series_data study: a PlantGro.OUT of at *)
(* most MaxRuns runs, one .WHT file per experiment, a variable and a       *)
(* treatment.                                                              *)

MaxRuns == 2

PG_TITLE == mk(FALSE, <<"*GROWTH">>)
PG_HDR == mk(FALSE, <<"@YEAR", "DOY", "DAS", "DAP", "LWAD">>)

PG_EXP(exp) == mk(TRUE, <<"EXPERIMENT", ":", exp, "WH">>)
PG_TRT(trno, name) == mk(TRUE, <<"TREATMENT", trno, ":", name, "WHCER048">>)

\* Planted on day 365 of 2022, on day 364, and a run whose output starts
\* after planting.
PG_ROWS_A ==
    <<mk(TRUE, <<"2022", "365", "3", "0", "0">>),
      mk(TRUE, <<"2023", "1", "4", "1", "5">>),
      mk(TRUE, <<"2023", "2", "5", "2", "6">>)>>
PG_ROWS_B ==
    <<mk(TRUE, <<"2022", "364", "3", "0", "0">>),
      mk(TRUE, <<"2022", "365", "4", "1", "3">>)>>
PG_ROWS_LATE == Tail(PG_ROWS_A)

PgRowSets == {PG_ROWS_A, PG_ROWS_B, PG_ROWS_LATE}

\* The runs a file may hold: [exp, trno, name].
PgRun(exp, trno, name) == [exp |-> exp, trno |-> trno, name |-> name]
PgFirstRuns ==
    {PgRun("CIOB2301", "1", "WW23_G-1"), PgRun("CIOB2201", "1", "DR22_G-1")}
PgNextRuns ==
    {PgRun("CIOB2301", "2", "WW23_G-2"), PgRun("CIOB2201", "1", "DR22_G-1"),
     PgRun("CIOB2301", "1", "WW23_G-2")}

PgBlock(run, rows) ==
    <<L_DSSAT, PG_EXP(run.exp), PG_TRT(run.trno, run.name), L_BLANK, PG_HDR>> \o rows

\* The runs of a file, a blank line between two runs.
RECURSIVE PgBlocks(_)
PgBlocks(n) ==
    IF n = 1 THEN {PgBlock(r, rows) : r \in PgFirstRuns, rows \in PgRowSets}
    ELSE {b \o <<L_BLANK>> \o PgBlock(r, rows) :
              b \in PgBlocks(n - 1), r \in PgNextRuns, rows \in PgRowSets}

\* The file: its title, then the runs; it ends with its last data row.
PlantGroFiles ==
    UNION {{<<PG_TITLE, L_BLANK>> \o b : b \in PgBlocks(n)} : n \in 1..MaxRuns}

WHT_TITLE == mk(FALSE, <<"*EXP", "DATA">>)
WhtRow(ts) == mk(TRUE, ts)

Wht2301 ==
    {<<WHT_TITLE, W_HDR3,
       WhtRow(<<"1", "2023001", "5">>), WhtRow(<<"1", "2023003", "7">>),
       WhtRow(<<"2", "2023001", "-99">>), WhtRow(<<"3", "2023001", "9">>)>>,
     <<WHT_TITLE, mk(FALSE, <<"@TRNO", "DATE">>),
       WhtRow(<<"1", "2023001">>), WhtRow(<<"2", "2023003">>)>>,
     <<WHT_TITLE, mk(FALSE, <<"@TRNO", "DATE", "GWAD">>),
       WhtRow(<<"1", "2023001", "10">>), WhtRow(<<"2", "2023002", "12">>)>>}

Wht2201 ==
    {<<WHT_TITLE, W_HDR3,
       WhtRow(<<"1", "2022365", "4">>), WhtRow(<<"1", "2023002", "9">>)>>,
     <<WHT_TITLE, mk(FALSE, <<"@TRNO", "DATE">>), WhtRow(<<"1", "2022365">>)>>,
     <<WHT_TITLE, WhtRow(<<"1", "2022365", "4">>)>>}

WhtFiles == {[CIOB2301 |-> a, CIOB2201 |-> b] : a \in Wht2301, b \in Wht2201}

VariableNames == {Some("LWAD"), Some("GWAD"), Nothing}
TreatmentsAsked == {<<"WW23">>, <<"DR22">>}
ShortLabelsOfConfig == {YList(<<<<"T", "1">>, <<"T", "2">>>>)}

InitTs ==
    /\ pc = "start"
    /\ ts_args \in [plantgro : PlantGroFiles, wht : WhtFiles,
                    short_label : ShortLabelsOfConfig,
                    variable_name : VariableNames, treatment : TreatmentsAsked]
    /\ treatment_number_name = Idle
    /\ treatment_experiment_name = Idle
    /\ plantgro_df = Idle
    /\ dap0_dates = Idle
    /\ wht_full_df = Idle
    /\ ts_return = Idle
    /\ tsRestIdle

\* Lines 39-94: the config, the PlantGro file and the simulated table.
LoadPlantGro ==
    /\ pc = "start"
    /\ LET r == PlantGroTable(ts_args.plantgro, ts_args.short_label,
                              ts_args.variable_name, ts_args.treatment)
       IN /\ pc' = IF r.raised THEN "raised_plantgro" ELSE "plantgro"
          /\ treatment_number_name' = r.tnn
          /\ treatment_experiment_name' = r.ten
          /\ plantgro_df' = r.plantgro_df
          /\ dap0_dates' = r.dap0_dates
    /\ UNCHANGED <<ts_args, wht_full_df, ts_return, tsRest>>

\* Lines 96-104: the measurement files, in the order the set yields them.
LoadWht ==
    /\ pc = "plantgro"
    /\ \E order \in Orders(unique_wht(treatment_experiment_name)) :
           LET r == WhtTable(ts_args.wht, order)
           IN /\ pc' = IF r.raised THEN "raised_wht" ELSE "wht"
              /\ wht_full_df' = r.table
    /\ UNCHANGED <<ts_args, treatment_number_name, treatment_experiment_name,
                   plantgro_df, dap0_dates, ts_return, tsRest>>

\* Lines 106-132: the join with the runs and the filter on the treatment.
MergeMapping ==
    /\ pc = "wht"
    /\ LET r == MappedTable(wht_full_df, treatment_number_name,
                            treatment_experiment_name, ts_args.treatment)
       IN /\ pc' = IF r.raised THEN "raised_mapping" ELSE "mapped"
          /\ wht_full_df' = r.table
    /\ UNCHANGED <<ts_args, treatment_number_name, treatment_experiment_name,
                   plantgro_df, dap0_dates, ts_return, tsRest>>

\* Lines 134-156: DAS and DAP of the simulated rows, DAP by date arithmetic.
EnrichTiming ==
    /\ pc = "mapped"
    /\ LET r == TimedTable(wht_full_df, plantgro_df, dap0_dates,
                           ShortLabelStr(ts_args.short_label))
       IN /\ pc' = IF r.raised THEN "raised_timing" ELSE "timed"
          /\ wht_full_df' = r.table
    /\ UNCHANGED <<ts_args, treatment_number_name, treatment_experiment_name,
                   plantgro_df, dap0_dates, ts_return, tsRest>>

\* Lines 158-183: the columns kept, the rows kept, sampling_id, the return.
SelectAndReturn ==
    /\ pc = "timed"
    /\ LET r == SelectedTable(wht_full_df, plantgro_df, ts_args.variable_name)
       IN /\ pc' = IF r.raised THEN "raised_select" ELSE "done"
          /\ ts_return' = IF r.raised THEN Idle
                           ELSE [plantgro_df |-> plantgro_df, wht_full_df |-> r.table]
    /\ UNCHANGED <<ts_args, treatment_number_name, treatment_experiment_name,
                   plantgro_df, dap0_dates, wht_full_df, tsRest>>

NextTs ==
    \/ LoadPlantGro
    \/ LoadWht
    \/ MergeMapping
    \/ EnrichTiming
    \/ SelectAndReturn

SpecTs == InitTs /\ [][NextTs]_vars

----------------------------------------------------------------------------
(* What the spec says of load_prepare_time_series_data, stated on the      *)
(* files read and on the tables returned.                                  *)

PgDssat(ls) == {i \in 1..Len(ls) : HasDssat(ls[i])}

\* The lines of the run that starts at '*DSSAT' line s.
PgRunLines(ls, s) ==
    LET later == {i \in PgDssat(ls) : i > s}
    IN s..(IF later = {} THEN Len(ls) ELSE Min(later) - 1)

\* The simulated runs of a PlantGro file: experiment and treatment number of
\* the run's own EXPERIMENT and TREATMENT lines, and the run's name split at
\* its underscore.
SimulatedRuns(ls) ==
    {[experiment_id |-> ls[e].toks[3],
      treatment_number |-> Get(NumberOf(ls[t].toks[2])),
      sim_id |-> NameKept(ls[t].toks),
      treatment |-> SplitUnderscore(NameKept(ls[t].toks))[1],
      genotype |-> SplitUnderscore(NameKept(ls[t].toks))[2]] :
        <<e, t>> \in UNION {{<<e, t>> \in PgRunLines(ls, s) \X PgRunLines(ls, s) :
                               /\ StrippedStartsWith(ls[e], "EXPERIMENT")
                               /\ StrippedStartsWith(ls[t], "TREATMENT")}
                            : s \in PgDssat(ls)}}

\* The data rows of a measurement file as (TRNO, DATE); the files' first two
\* columns are TRNO and DATE.
MeasuredRows(ls) ==
    {[TRNO |-> Get(NumberOf(ls[i].toks[1])), DATE |-> ls[i].toks[2]] :
        i \in {j \in 1..Len(ls) : IsWhtDataLine(ls[j])}}

Returned == ts_return.wht_full_df.rows

RunOfRow(r, run) ==
    /\ run.treatment = ts_args.treatment
    /\ r["experiment_id"] = Some(run.experiment_id)
    /\ r["TRNO"] = Some(run.treatment_number)
    /\ r["sim_id"] = Some(run.sim_id)
    /\ r["treatment"] = Some(run.treatment)
    /\ r["genotype"] = Some(run.genotype)

\* C4: every row of the returned measurement table is a row of a .WHT file
\* whose (experiment_id, TRNO) is the (experiment_id, treatment_number) of a
\* simulated run of the PlantGro file with the requested treatment, and the
\* row has the sim_id, treatment and genotype of that run.
C4_KeptRowsMatchARun ==
    pc = "done" =>
        \A i \in 1..Len(Returned) :
            /\ \E m \in MeasuredRows(ts_args.wht[Get(Returned[i]["experiment_id"])]) :
                   /\ Returned[i]["TRNO"] = Some(m.TRNO)
                   /\ Returned[i]["DATE"] = Some(m.DATE)
            /\ \E run \in SimulatedRuns(ts_args.plantgro) : RunOfRow(Returned[i], run)

\* A call that kept a row and left out a row of a file it read, whose
\* treatment number belongs to a run of the requested treatment in another
\* experiment.
C4_Witness ==
    /\ pc = "done"
    /\ Returned # <<>>
    /\ \E x \in unique_wht(treatment_experiment_name) :
         \E m \in MeasuredRows(ts_args.wht[x]) :
           /\ \E run \in SimulatedRuns(ts_args.plantgro) :
                  /\ run.treatment = ts_args.treatment
                  /\ run.treatment_number = m.TRNO
                  /\ run.experiment_id # x
           /\ \A i \in 1..Len(Returned) : Returned[i]["experiment_id"] # Some(x)

\* The simulated rows of the returned table with the DATE, treatment and
\* genotype of a returned measurement row.
SimulatedRowsOf(r) ==
    {s \in {ts_return.plantgro_df.rows[j] : j \in 1..Len(ts_return.plantgro_df.rows)} :
        /\ s["DATE"] # Nothing
        /\ s["DATE"] = DateOfToken(Get(r["DATE"]))
        /\ s["treatment"] = r["treatment"]
        /\ s["genotype"] = r["genotype"]}

\* The dates of the simulated rows (of the requested treatment) with DAP = 0.
ZeroDapDates ==
    {Get(s["DATE"]) :
        s \in {x \in {ts_return.plantgro_df.rows[j] : j \in 1..Len(ts_return.plantgro_df.rows)} :
                  x["DAP"] = Some(0)}}

\* C5: a returned measurement row with a simulated row of the same DATE,
\* treatment and genotype has that simulated row's DAP; any other returned
\* row has as DAP the days from the earliest simulated date with DAP = 0 to
\* its own date.
C5_DapFromRowOrDates ==
    pc = "done" =>
        \A i \in 1..Len(Returned) :
            IF SimulatedRowsOf(Returned[i]) # {}
            THEN \E s \in SimulatedRowsOf(Returned[i]) : Returned[i]["DAP"] = s["DAP"]
            ELSE /\ ZeroDapDates # {}
                 /\ Returned[i]["DAP"] =
                        Some(DaysBetween(Get(DateOfToken(Get(Returned[i]["DATE"]))),
                                         Min(ZeroDapDates)))

\* A call that returned a row dated by a simulated row and a row dated by
\* arithmetic, the simulated rows having two planting dates.
C5_Witness ==
    /\ pc = "done"
    /\ \E i \in 1..Len(Returned) : SimulatedRowsOf(Returned[i]) # {}
    /\ \E i \in 1..Len(Returned) : SimulatedRowsOf(Returned[i]) = {}
    /\ Cardinality(ZeroDapDates) > 1

\* The requested variable is no column of the measurement data, or no row
\* has a value in it.
VariableMissing ==
    \/ ts_args.variable_name = Nothing
    \/ Get(ts_args.variable_name) \notin wht_full_df.columns
    \/ \A i \in 1..Len(wht_full_df.rows) :
           wht_full_df.rows[i][Get(ts_args.variable_name)] = Nothing

\* C6: when the call comes to select the measurement columns and the
\* requested variable is no column of the measurement data, or has no
\* non-null value in it, the call does not raise: it returns the simulated
\* table as it was built and a measurement table without rows that has a
\* sampling_id column.
C6_MissingVariableGivesEmptyTable ==
    (pc \in {"done", "raised_select"} /\ VariableMissing) =>
        /\ pc = "done"
        /\ ts_return.plantgro_df = plantgro_df
        /\ ts_return.wht_full_df.rows = <<>>
        /\ "sampling_id" \in ts_return.wht_full_df.columns

\* A call for a variable the simulated table has and the measurement data
\* have not, the measurement data having rows for the treatment.
C6_Witness ==
    /\ pc = "done"
    /\ ts_args.variable_name # Nothing
    /\ Get(ts_args.variable_name) \in plantgro_df.columns
    /\ Get(ts_args.variable_name) \notin wht_full_df.columns
    /\ wht_full_df.rows # <<>>

----------------------------------------------------------------------------
(* data_preparation_grid.py. A metric table is a sequence of rows          *)
(* [variable, short_label, treatment, value], the value in thousandths.    *)
(* A pivot table is [index, columns, cell]: the row labels and the column  *)
(* labels in their order, and cell[v, l] = Some(value) or Nothing (NaN).   *)

NRMSE_DECIMALS == 2

\* The step of round(NRMSE_DECIMALS) on values counted in thousandths.
RoundUnit == 10 ^ (3 - NRMSE_DECIMALS)

\* round(): to the nearest multiple of the step, a half to the even one.
Round(v) ==
    LET q == v \div RoundUnit
        r == v % RoundUnit
    IN IF 2 * r < RoundUnit THEN q * RoundUnit
       ELSE IF 2 * r > RoundUnit THEN (q + 1) * RoundUnit
       ELSE IF q % 2 = 0 THEN q * RoundUnit ELSE (q + 1) * RoundUnit

\* The names the tables use, in the order sorting puts them.
Alphabet == <<"A", "Anthesis", "B", "Yield">>

\* sorted(S)
Sorted(S) == SelectSeq(Alphabet, LAMBDA x : x \in S)

Range(q) == {q[i] : i \in 1..Len(q)}

\* data[isin(selected_short_labels) & (treatment == t) & isin(selected_variables)]
SelectFor(data, treatment, selected_variables, selected_short_labels) ==
    SelectSeq(data, LAMBDA r : /\ r.short_label \in selected_short_labels
                               /\ r.treatment = treatment
                               /\ r.variable \in selected_variables)

\* data.loc[isin(selected_variables) & isin(selected_short_labels), column]
SelectAll(data, selected_variables, selected_short_labels) ==
    {data[i].value : i \in {j \in 1..Len(data) :
                               /\ data[j].variable \in selected_variables
                               /\ data[j].short_label \in selected_short_labels}}

\* Series.min() and Series.max(): NaN for an empty selection.
MinOf(S) == IF S = {} THEN Nothing ELSE Some(Min(S))
MaxOf(S) == IF S = {} THEN Nothing ELSE Some(Max(S))

compute_global_metric_limits(nrmse_data, mpe_data, r2_data, gain_data, selected_variables, selected_short_labels) ==
    [nrmse_min |-> MinOf(SelectAll(nrmse_data, selected_variables, selected_short_labels)),
     nrmse_max |-> MaxOf(SelectAll(nrmse_data, selected_variables, selected_short_labels)),
     mpe_min |-> MinOf(SelectAll(mpe_data, selected_variables, selected_short_labels)),
     mpe_max |-> MaxOf(SelectAll(mpe_data, selected_variables, selected_short_labels)),
     r2_min |-> MinOf(SelectAll(r2_data, selected_variables, selected_short_labels)),
     r2_max |-> MaxOf(SelectAll(r2_data, selected_variables, selected_short_labels)),
     gain_min |-> MinOf(SelectAll(gain_data, selected_variables, selected_short_labels)),
     gain_max |-> MaxOf(SelectAll(gain_data, selected_variables, selected_short_labels))]

\* rows.pivot(index='variable', columns='short_label', values=...): refused
\* when two rows have the same variable and short_label.
Pivot(rows) ==
    IF \E i, j \in 1..Len(rows) :
           /\ i # j
           /\ rows[i].variable = rows[j].variable
           /\ rows[i].short_label = rows[j].short_label
    THEN [raised |-> TRUE, index |-> <<>>, columns |-> <<>>, cell |-> <<>>]
    ELSE LET vs == {rows[i].variable : i \in 1..Len(rows)}
             ls == {rows[i].short_label : i \in 1..Len(rows)}
         IN [raised |-> FALSE, index |-> Sorted(vs), columns |-> Sorted(ls),
             cell |-> [v \in vs, l \in ls |->
                 IF \E i \in 1..Len(rows) :
                        rows[i].variable = v /\ rows[i].short_label = l
                 THEN Some(rows[CHOOSE i \in 1..Len(rows) :
                               rows[i].variable = v /\ rows[i].short_label = l].value)
                 ELSE Nothing]]

\* pivot.round(NRMSE_DECIMALS)
Rounded(p) ==
    [p EXCEPT !.cell = [x \in DOMAIN p.cell |->
                           IF p.cell[x] = Nothing THEN Nothing
                           ELSE Some(Round(Get(p.cell[x])))]]

RECURSIVE SumOf(_)
SumOf(q) == IF q = <<>> THEN 0 ELSE Head(q) + SumOf(Tail(q))

\* The mean of the cells that hold a value, as [sum, count].
MeanOf(cells) ==
    LET held == SelectSeq(cells, LAMBDA c : c # Nothing)
    IN [sum |-> SumOf([i \in 1..Len(held) |-> Get(held[i])]), count |-> Len(held)]

\* pivot.mean(axis=1) and pivot.mean(axis=0) for one label
RowMean(p, v) == MeanOf([k \in 1..Len(p.columns) |-> p.cell[v, p.columns[k]]])
ColumnMean(p, l) == MeanOf([k \in 1..Len(p.index) |-> p.cell[p.index[k], l]])

\* a < b for two means (every row and column of a pivot holds a value)
MeanLess(a, b) == a.sum * b.count < b.sum * a.count

\* The orders sort_values() may give the labels, mean[l] being the mean of
\* label l: ascending in their mean, labels of equal mean in any order.
SortedByMean(labels, mean) ==
    {o \in Orders(labels) :
        \A i, j \in 1..Len(o) : i < j => ~MeanLess(mean[o[j]], mean[o[i]])}

\* The pivot with the order it has by itself.
OwnOrder(p, rows, columns) == p

\* pivot.loc[rows, columns]: KeyError for a label the pivot has not.
Loc(p, rows, columns) ==
    IF p.raised \/ ~(Range(rows) \subseteq Range(p.index))
           \/ ~(Range(columns) \subseteq Range(p.columns))
    THEN [raised |-> TRUE, index |-> <<>>, columns |-> <<>>, cell |-> <<>>]
    ELSE [raised |-> FALSE, index |-> rows, columns |-> columns,
          cell |-> [v \in Range(rows), l \in Range(columns) |-> p.cell[v, l]]]

\* .loc[treatment_order_trt, calib_order_trt] on the MPE, R2 and gain pivots
OrderedLikeNrmse(p, rows, columns) == Loc(p, rows, columns)

\* pivot_table_trt of lines 60-67
pivot_table_trt(nrmse_data, treatment, selected_variables, selected_short_labels) ==
    LET p == Pivot(SelectFor(nrmse_data, treatment, selected_variables,
                             selected_short_labels))
    IN IF p.raised THEN p ELSE Rounded(p)

\* prepare_metrics_by_treatment, treatment_order_trt and calib_order_trt being
\* the orders the two sorts gave: [raised, nrmse, mpe, r2, gain].
prepare_metrics_by_treatment(nrmse_data, mpe_data, r2_data, gain_data, treatment, selected_variables, selected_short_labels, treatment_order_trt, calib_order_trt) ==
    LET nrmse == Loc(pivot_table_trt(nrmse_data, treatment, selected_variables,
                                     selected_short_labels),
                     treatment_order_trt, calib_order_trt)
        mpe == OrderedLikeNrmse(Pivot(SelectFor(mpe_data, treatment, selected_variables,
                                   selected_short_labels)),
                                treatment_order_trt, calib_order_trt)
        r2 == OrderedLikeNrmse(Pivot(SelectFor(r2_data, treatment, selected_variables,
                                  selected_short_labels)),
                               treatment_order_trt, calib_order_trt)
        gain == OrderedLikeNrmse(Pivot(SelectFor(gain_data, treatment, selected_variables,
                                    selected_short_labels)),
                                 treatment_order_trt, calib_order_trt)
    IN [raised |-> nrmse.raised \/ mpe.raised \/ r2.raised \/ gain.raised,
        nrmse |-> nrmse, mpe |-> mpe, r2 |-> r2, gain |-> gain]

----------------------------------------------------------------------------
(* Inputs of the Figure-5 study: metric tables over two variables, two     *)
(* labels and the script's first two treatments.                           *)

treatments == <<"WW-23", "DR-22">>

MetricRow(v, l, t, x) == [variable |-> v, short_label |-> l, treatment |-> t, value |-> x]

\* The cells of the first treatment, in the order the metric engine emits them.
CellsWW == <<<<"Anthesis", "A">>, <<"Anthesis", "B">>, <<"Yield", "A">>, <<"Yield", "B">>>>

NrmseValues == {Nothing, Some(124), Some(126), Some(250)}

\* The rows of the first treatment, a row for every cell that holds a value.
RowsWW(f) ==
    LET held == SelectSeq([k \in 1..Len(CellsWW) |-> k], LAMBDA k : f[k] # Nothing)
    IN [i \in 1..Len(held) |->
           MetricRow(CellsWW[held[i]][1], CellsWW[held[i]][2], "WW-23", Get(f[held[i]]))]

RowsDR ==
    {<<MetricRow("Yield", "A", "DR-22", 104)>>,
     <<MetricRow("Anthesis", "B", "DR-22", 301), MetricRow("Yield", "B", "DR-22", 126),
       MetricRow("Yield", "A", "DR-22", 218)>>}

\* Two calibrations with one short_label give a cell two rows.
WithSecondRow(rows) ==
    IF rows = <<>> THEN rows ELSE Append(rows, [rows[1] EXCEPT !.value = 333])

NrmseTables ==
    {ww \o dr : ww \in {RowsWW(f) : f \in [1..Len(CellsWW) -> NrmseValues]}, dr \in RowsDR}
        \cup {WithSecondRow(RowsWW(f)) \o dr :
                 f \in [1..Len(CellsWW) -> {Some(124), Some(250)}], dr \in RowsDR}

\* Another metric over the rows of a table.
Revalued(rows, V(_)) == [i \in 1..Len(rows) |-> [rows[i] EXCEPT !.value = V(@)]]
Reversed(rows) == [i \in 1..Len(rows) |-> rows[Len(rows) + 1 - i]]

\* The other metrics: over the same cells, in another row order, or without
\* the first cell.
MpeTables(nrmse) ==
    {Revalued(nrmse, LAMBDA x : 150 - x),
     Reversed(Revalued(nrmse, LAMBDA x : 150 - x)),
     Tail(Revalued(nrmse \o <<MetricRow("Yield", "B", "HT-22", 7)>>, LAMBDA x : 150 - x))}
R2Tables(nrmse) ==
    {Revalued(nrmse, LAMBDA x : 1000 - x), Reversed(Revalued(nrmse, LAMBDA x : 2 * x))}
GainTables(nrmse) == {Revalued(nrmse, LAMBDA x : 900 + x)}

SelectedVariables == {{"Anthesis", "Yield"}, {"Yield"}}

\* selected_short_labels = nrmse_data['short_label'].unique().tolist()
LabelsOf(nrmse) == {nrmse[i].short_label : i \in 1..Len(nrmse)}

MetricArgs ==
    UNION {{[nrmse_data |-> n, mpe_data |-> m, r2_data |-> r, gain_data |-> g,
             selected_variables |-> sv, selected_short_labels |-> LabelsOf(n)] :
               m \in MpeTables(n), r \in R2Tables(n), g \in GainTables(n),
               sv \in SelectedVariables}
           : n \in NrmseTables}

InitMetrics ==
    /\ pc = "start"
    /\ mt_args \in MetricArgs
    /\ global_limits = Idle
    /\ metrics_by_treatment = <<>>
    /\ mtRestIdle

\* Figure-5 lines 67-69
ComputeGlobalMetricLimits ==
    /\ pc = "start"
    /\ pc' = "loop"
    /\ global_limits' = compute_global_metric_limits(
           mt_args.nrmse_data, mt_args.mpe_data, mt_args.r2_data, mt_args.gain_data,
           mt_args.selected_variables, mt_args.selected_short_labels)
    /\ UNCHANGED <<mt_args, metrics_by_treatment, mtRest>>

\* Figure-5 lines 73-78: one pass of `for treatment in treatments`.
PrepareMetricsByTreatment ==
    /\ pc = "loop"
    /\ LET treatment == treatments[Len(metrics_by_treatment) + 1]
           p == pivot_table_trt(mt_args.nrmse_data, treatment,
                                mt_args.selected_variables, mt_args.selected_short_labels)
       IN IF p.raised
          THEN pc' = "raised" /\ UNCHANGED metrics_by_treatment
          ELSE \E treatment_order_trt \in SortedByMean(Range(p.index), [v \in Range(p.index) |-> RowMean(p, v)]),
                  calib_order_trt \in SortedByMean(Range(p.columns), [l \in Range(p.columns) |-> ColumnMean(p, l)]) :
                   LET r == prepare_metrics_by_treatment(
                                mt_args.nrmse_data, mt_args.mpe_data, mt_args.r2_data,
                                mt_args.gain_data, treatment, mt_args.selected_variables,
                                mt_args.selected_short_labels,
                                treatment_order_trt, calib_order_trt)
                   IN IF r.raised
                      THEN pc' = "raised" /\ UNCHANGED metrics_by_treatment
                      ELSE /\ metrics_by_treatment' =
                                  Append(metrics_by_treatment,
                                         [key |-> treatment,
                                          val |-> [nrmse |-> r.nrmse, mpe |-> r.mpe,
                                                   r2 |-> r.r2, gain |-> r.gain]])
                           /\ pc' = IF Len(metrics_by_treatment) + 1 = Len(treatments)
                                    THEN "done" ELSE "loop"
    /\ UNCHANGED <<mt_args, global_limits, mtRest>>

NextMetrics == ComputeGlobalMetricLimits \/ PrepareMetricsByTreatment

SpecMetrics == InitMetrics /\ [][NextMetrics]_vars

----------------------------------------------------------------------------
(* What the spec says of the metric tables. *)

Prepared == {metrics_by_treatment[i].val : i \in 1..Len(metrics_by_treatment)}

SameOrder(a, b) == a.index = b.index /\ a.columns = b.columns

\* The labels of a sequence stand in ascending order of their mean.
Ascends(labels, Mean(_)) ==
    \A i \in 1..(Len(labels) - 1) : ~MeanLess(Mean(labels[i + 1]), Mean(labels[i]))

\* C7: the MPE, R2 and gain tables returned for a treatment have the row
\* order and the column order of the returned NRMSE table, whose rows stand
\* in ascending order of row mean and whose columns stand in ascending order
\* of column mean of the rounded NRMSE values.
C7_SameOrderAscendingMeans ==
    \A t \in Prepared :
        /\ SameOrder(t.mpe, t.nrmse)
        /\ SameOrder(t.r2, t.nrmse)
        /\ SameOrder(t.gain, t.nrmse)
        /\ Ascends(t.nrmse.index, LAMBDA v : RowMean(t.nrmse, v))
        /\ Ascends(t.nrmse.columns, LAMBDA l : ColumnMean(t.nrmse, l))

\* Tables of two rows and two columns were returned whose order by mean is
\* not the alphabetical one, rows and columns.
C7_Witness ==
    \E t \in Prepared :
        /\ t.nrmse.index = <<"Yield", "Anthesis">>
        /\ t.nrmse.columns = <<"B", "A">>
        /\ t.mpe.index = <<"Yield", "Anthesis">>
        /\ \E v \in {"Yield", "Anthesis"} : t.nrmse.cell[v, "A"] = Nothing

\* C8: every value of the NRMSE table returned for a treatment lies between
\* nrmse_min and nrmse_max of the limits computed for the same selection.
C8_LimitsBoundPivot ==
    \A t \in Prepared :
        \A x \in DOMAIN t.nrmse.cell :
            t.nrmse.cell[x] # Nothing =>
                /\ global_limits.nrmse_min # Nothing
                /\ Get(global_limits.nrmse_min) <= Get(t.nrmse.cell[x])
                /\ Get(t.nrmse.cell[x]) <= Get(global_limits.nrmse_max)

----------------------------------------------------------------------------
(* The figure scripts and the files they touch. A file is                  *)
(* [dir, name, ext, content]; the content of a file the scripts did not    *)
(* write is "original".                                                    *)

FILE_FORMAT == "png"

\* BASE_OUTPUT
OutputDir == "output"

Scripts == {"Figure-3", "Figure-5", "Figure-6", "Figure-B.2"}

Path(dir, name, ext) == [dir |-> dir, name |-> name, ext |-> ext]
PathOf(f) == Path(f.dir, f.name, f.ext)
FileAt(path, content) ==
    [dir |-> path.dir, name |-> path.name, ext |-> path.ext, content |-> content]

\* os.path.isfile(path); open(path, 'r') and pd.read_csv(path) raise without it
IsFile(files, path) == \E f \in files : PathOf(f) = path

\* plt.savefig(path): FileNotFoundError without the directory, else the file
\* is created or replaced.
savefig(files, dirs, path) ==
    IF path.dir \notin dirs THEN [raised |-> TRUE, files |-> files]
    ELSE [raised |-> FALSE,
          files |-> {f \in files : PathOf(f) # path} \cup {FileAt(path, "figure")}]

\* os.makedirs(output_dir, exist_ok=True)
makedirs(dirs, dir) == dirs \cup {dir}

\* The files each loading call of a script reads, call by call.
ReadsOfFigure3 == <<{Path("cultivar_parameters", "CULTIVAR_parameters", "csv")}>>

OverviewFolder(code) == {Path(code, "OVERVIEW", "OUT"), Path(code, "config", "yaml")}

ReadsOfFigure5 ==
    LET calibration_code_list == <<"BM-ts", "BM-ts_LAI-ts", "LAI-ts", "No-ts">>
    IN [i \in 1..Len(calibration_code_list) |-> OverviewFolder(calibration_code_list[i])]

ReadsOfFigureB2 ==
    LET calibration_code_list == <<"cultivar_subset_a", "cultivar_subset_b",
                                   "cultivar_subset_c", "cultivar_subset_d">>
    IN [i \in 1..Len(calibration_code_list) |-> OverviewFolder(calibration_code_list[i])]

\* One call of load_prepare_time_series_data per variable, treatment and
\* calibration code.
ReadsOfFigure6 ==
    LET calibration_code_list == <<"cultivar_subset_c", "cultivar_CI0001", "cultivar_AZWH18">>
        var_names == <<"LWAD", "RWAD">>
        treatments6 == <<"WW23", "DR22", "DR23">>
        n == Len(calibration_code_list)
    IN [i \in 1..(Len(var_names) * Len(treatments6) * n) |->
           {Path(calibration_code_list[((i - 1) % n) + 1], "config", "yaml"),
            Path(calibration_code_list[((i - 1) % n) + 1], "PlantGro", "OUT"),
            Path("Wheat", "CIOB2301", "WHT")}]

Reads(script) ==
    CASE script = "Figure-3" -> ReadsOfFigure3
      [] script = "Figure-5" -> ReadsOfFigure5
      [] script = "Figure-6" -> ReadsOfFigure6
      [] script = "Figure-B.2" -> ReadsOfFigureB2

\* The figure each script saves.
FigureOfFigure3 == Path(OutputDir, "Figure-3_parameters_barplot", FILE_FORMAT)
FigureOfFigure5 == Path(OutputDir, "Figure-5_time-series_NRMSE_heatmap", FILE_FORMAT)
FigureOfFigure6 == Path(OutputDir, "Figure-6_time-series_LWAD_RWAD_14_Ecotypes", FILE_FORMAT)
FigureOfFigureB2 == Path(OutputDir, "Figure-B.2_ecotype-calibration_heatmap_WW-23", FILE_FORMAT)

FigureOf(script) ==
    CASE script = "Figure-3" -> FigureOfFigure3
      [] script = "Figure-5" -> FigureOfFigure5
      [] script = "Figure-6" -> FigureOfFigure6
      [] script = "Figure-B.2" -> FigureOfFigureB2

\* Figure-5 with the two lines after its comment "Set Pandas display options"
\* active: nrmse_data.to_csv(output_path).
NrmseDataSaved(script) ==
    IF script = "Figure-5" THEN {Path(OutputDir, "nrmse_data", "csv")} ELSE {}

\* The tables a script writes to disk between loading and plotting: none.
TablesSaved(script) == {}

\* The directories and files a script reads from.
InputsOf(script) == UNION {Reads(script)[i] : i \in 1..Len(Reads(script))}
InputDirsOf(script) == {p.dir : p \in InputsOf(script)}

\* What the output directory may hold before the run.
OldOutputs(script) ==
    {{}, {FileAt(FigureOf(script), "original")},
     {FileAt(Path(OutputDir, "notes", "txt"), "original")}}

InitFigures ==
    /\ pc = "loading"
    /\ fs_script \in Scripts
    /\ fs_pos = 0
    /\ \E out \in BOOLEAN, absent \in {{}} \cup {{p} : p \in InputsOf(fs_script)},
          old \in OldOutputs(fs_script) :
           /\ fs_dirs = InputDirsOf(fs_script) \cup (IF out THEN {OutputDir} ELSE {})
           /\ fs_files = {FileAt(p, "original") : p \in InputsOf(fs_script) \ absent}
                             \cup (IF out THEN old ELSE {})
    /\ fsRestIdle

\* One loading call: it opens its files for reading.
LoadData ==
    /\ pc = "loading"
    /\ fs_pos < Len(Reads(fs_script))
    /\ IF \A p \in Reads(fs_script)[fs_pos + 1] : IsFile(fs_files, p)
       THEN pc' = "loading" /\ fs_pos' = fs_pos + 1
       ELSE pc' = "raised" /\ UNCHANGED fs_pos
    /\ UNCHANGED <<fs_script, fs_files, fs_dirs, fsRest>>

\* Between loading and plotting: the tables are computed in memory.
ComputeTables ==
    /\ pc = "loading"
    /\ fs_pos = Len(Reads(fs_script))
    /\ IF TablesSaved(fs_script) # {} /\ OutputDir \notin fs_dirs
       THEN pc' = "raised" /\ UNCHANGED fs_files
       ELSE /\ pc' = "plotting"
            /\ fs_files' = {f \in fs_files : PathOf(f) \notin TablesSaved(fs_script)}
                              \cup {FileAt(p, "table") : p \in TablesSaved(fs_script)}
    /\ UNCHANGED <<fs_script, fs_dirs, fs_pos, fsRest>>

\* The plotting function saves its figure; only create_growth_panel_comparison
\* (Figure-6) makes the output directory first.
SaveFigure ==
    /\ pc = "plotting"
    /\ LET dirs == IF fs_script = "Figure-6" THEN makedirs(fs_dirs, OutputDir) ELSE fs_dirs
           r == savefig(fs_files, dirs, FigureOf(fs_script))
       IN /\ pc' = IF r.raised THEN "raised" ELSE "done"
          /\ fs_dirs' = dirs
          /\ fs_files' = r.files
    /\ UNCHANGED <<fs_script, fs_pos, fsRest>>

NextFigures == LoadData \/ ComputeTables \/ SaveFigure

SpecFigures == InitFigures /\ [][NextFigures]_vars

----------------------------------------------------------------------------
(* What the spec says of the data flow. *)

----------------------------------------------------------------------------
(* validate_file_path (utils.py): Python values are records with their     *)
(* type; the filesystem is the set of paths of its regular files and the   *)
(* set of paths of its directories.                                        *)

PyStr(s) == [type |-> "str", text |-> s]
PyNone == [type |-> "NoneType"]
PyInt(n) == [type |-> "int", value |-> n]
PyList(xs) == [type |-> "list", items |-> xs]
PyPath(s) == [type |-> "PosixPath", text |-> s]

\* bool(value)
Truthy(v) ==
    CASE v.type = "str" -> v.text # ""
      [] v.type = "NoneType" -> FALSE
      [] v.type = "int" -> v.value # 0
      [] v.type = "list" -> v.items # <<>>
      [] OTHER -> TRUE

\* os.path.exists(path)
exists(disk, path) == path \in disk.files \cup disk.dirs

\* os.path.isfile(path)
isfile(disk, path) == path \in disk.files

\* validate_file_path(file_path): how the call ends, the paths it asked the
\* filesystem about, and the filesystem it leaves.
validate_file_path(disk, v) ==
    IF ~Truthy(v) \/ v.type # "str"
    THEN [out |-> [kind |-> "ValueError"], probed |-> <<>>, disk |-> disk]
    ELSE IF ~isfile(disk, v.text)
         THEN [out |-> [kind |-> "FileNotFoundError"], probed |-> <<v.text>>,
               disk |-> disk]
         ELSE [out |-> [kind |-> "return", value |-> v], probed |-> <<v.text>>,
               disk |-> disk]

\* Inputs of the validate_file_path study.
VfPaths == {"data/PlantGro.OUT", "data/config.yaml", "data"}

\* Every path is a regular file, a directory, or nothing.
VfDisks ==
    {[files |-> f, dirs |-> d] : f \in SUBSET VfPaths, d \in SUBSET VfPaths} \
        {x \in [files : SUBSET VfPaths, dirs : SUBSET VfPaths] :
            x.files \cap x.dirs # {}}

VfArguments ==
    {PyStr(p) : p \in VfPaths \cup {"", " "}}
        \cup {PyPath(p) : p \in VfPaths}
        \cup {PyNone, PyInt(0), PyInt(7), PyList(<<>>),
              PyList(<<"data/PlantGro.OUT">>)}

InitValidate ==
    /\ pc = "start"
    /\ vf_disk \in VfDisks
    /\ file_path = Idle
    /\ vf_out = Idle
    /\ vf_probed = Idle
    /\ vfRestIdle

\* A call of validate_file_path(file_path); the function may be called again.
ValidateFilePath ==
    /\ \E v \in VfArguments :
          LET r == validate_file_path(vf_disk, v)
          IN /\ file_path' = v
             /\ vf_out' = r.out
             /\ vf_probed' = r.probed
             /\ vf_disk' = r.disk
             /\ pc' = IF r.out.kind = "return" THEN "returned" ELSE "raised"
    /\ UNCHANGED vfRest

NextValidate == ValidateFilePath

SpecValidate == InitValidate /\ [][NextValidate]_vars

----------------------------------------------------------------------------
(* What the spec says of validate_file_path. *)

\* The argument is a string that is not empty.
NonEmptyString(v) == v.type = "str" /\ v.text # ""

\* C12: validate_file_path returns its argument unchanged when it names an
\* existing regular file; it raises ValueError when the argument is empty or
\* not a string, before any filesystem access, and FileNotFoundError when no
\* file exists at the path; it never changes the filesystem.
C12_ValidateContract ==
    [][/\ vf_disk' = vf_disk
       /\ (NonEmptyString(file_path') /\ file_path'.text \in vf_disk.files)
              => vf_out' = [kind |-> "return", value |-> file_path']
       /\ ~NonEmptyString(file_path')
              => (vf_out'.kind = "ValueError" /\ vf_probed' = <<>>)
       /\ (NonEmptyString(file_path') /\ file_path'.text \notin vf_disk.files)
              => vf_out'.kind = "FileNotFoundError"]_vars

\* C12 witness: the path of a regular file has been returned on a disk that
\* also holds a directory.
C12_Witness ==
    /\ pc = "returned"
    /\ vf_out = [kind |-> "return", value |-> file_path]
    /\ file_path.text \in vf_disk.files
    /\ vf_disk.dirs # {}

----------------------------------------------------------------------------
(* The metric engine (metrics.py, called at Figure-5 lines 52-64).  A      *)
(* metric table has one row per group of records: the group's key columns  *)
(* and the metric, a number in thousandths or Nothing (NaN) where the      *)
(* formula divides by zero.                                                *)

\* The columns without the treatment.
GroupColsNoTreatment ==
    <<"variable", "calibration_method", "short_label", "long_label">>

\* Figure-5 line 52
group_cols ==
    <<"variable", "calibration_method", "short_label", "long_label", "treatment">>

\* The key of a record under df.groupby(group_cols)
GroupKey(r, cols) == [c \in Range(cols) |-> r[c]]

\* The records of a group, in table order.
GroupOf(df, cols, key) == SelectSeq(df, LAMBDA r : GroupKey(r, cols) = key)

\* The keys of the groups, in the order of their first record.
RECURSIVE GroupKeys(_, _, _)
GroupKeys(df, cols, seen) ==
    IF df = <<>> THEN <<>>
    ELSE LET k == GroupKey(Head(df), cols)
         IN IF k \in seen THEN GroupKeys(Tail(df), cols, seen)
            ELSE <<k>> \o GroupKeys(Tail(df), cols, seen \cup {k})

\* The sums a metric is made of, over the records of one group; s is the
\* simulated and m the measured value.
Sums(g) ==
    [n |-> Len(g),
     m |-> SumOf([i \in 1..Len(g) |-> g[i].value_measured]),
     s |-> SumOf([i \in 1..Len(g) |-> g[i].value_simulated]),
     mm |-> SumOf([i \in 1..Len(g) |-> g[i].value_measured * g[i].value_measured]),
     ms |-> SumOf([i \in 1..Len(g) |-> g[i].value_measured * g[i].value_simulated]),
     dd |-> SumOf([i \in 1..Len(g) |->
                (g[i].value_simulated - g[i].value_measured)
                    * (g[i].value_simulated - g[i].value_measured)])]

\* The largest r of lo..hi with r * r * den <= num.
RECURSIVE RootBetween(_, _, _, _)
RootBetween(num, den, lo, hi) ==
    IF lo = hi THEN lo
    ELSE LET mid == (lo + hi + 1) \div 2
         IN IF mid * mid * den <= num THEN RootBetween(num, den, mid, hi)
            ELSE RootBetween(num, den, lo, mid - 1)

MaxMetric == 1500

\* NRMSE with norm_method='mean': sqrt(mean((s - m)^2)) / mean(m), which is
\* sqrt(n * sum((s - m)^2)) / sum(m).
Nrmse(g) ==
    LET t == Sums(g)
    IN IF t.m = 0 THEN Nothing
       ELSE Some(RootBetween(1000000 * t.n * t.dd, t.m * t.m, 0, MaxMetric))

RECURSIVE ProductOf(_)
ProductOf(q) == IF q = <<>> THEN 1 ELSE Head(q) * ProductOf(Tail(q))

\* Mean percentage error: mean((s - m) / m) * 100.
Mpe(g) ==
    IF \E i \in 1..Len(g) : g[i].value_measured = 0 THEN Nothing
    ELSE LET d == ProductOf([i \in 1..Len(g) |-> g[i].value_measured])
             num == SumOf([i \in 1..Len(g) |->
                        (g[i].value_simulated - g[i].value_measured)
                            * (d \div g[i].value_measured)])
         IN Some((100 * 1000 * num) \div (Len(g) * d))

\* n times the sum of squares of the measured values about their mean.
MeasuredSpread(t) == t.n * t.mm - t.m * t.m

\* R2 to the 1:1 line: 1 - sum((s - m)^2) / sum((m - mean(m))^2).
R2OneToOne(g) ==
    LET t == Sums(g)
    IN IF MeasuredSpread(t) = 0 THEN Nothing
       ELSE Some(1000 - (1000 * t.n * t.dd) \div MeasuredSpread(t))

\* What a fit may answer for a group whose measured values are all equal:
\* the data fix no slope (NaN, or the slope of any of the best lines).
UnfixedSlopes == {Nothing, Some(0), Some(500), Some(1000)}

\* Gain: the slope of the least-squares line of simulated on measured.
Gain(g, unfixed) ==
    LET t == Sums(g)
    IN IF MeasuredSpread(t) = 0 THEN unfixed
       ELSE Some((1000 * (t.n * t.ms - t.m * t.s)) \div MeasuredSpread(t))

\* The metric of the name over the records of a group.
MetricOf(name, g, unfixed) ==
    CASE name = "nrmse" -> Nrmse(g)
      [] name = "mpe" -> Mpe(g)
      [] name = "r2" -> R2OneToOne(g)
      [] name = "gain" -> Gain(g, unfixed)

\* df.groupby(group_cols) and one metric per group: a row per group.
Grouped(df, cols, name, unfixed) ==
    LET keys == GroupKeys(df, cols, {})
    IN [i \in 1..Len(keys) |->
           [key |-> keys[i],
            value |-> MetricOf(name, GroupOf(df, cols, keys[i]), unfixed)]]

compute_grouped_nrmse(df, cols) == Grouped(df, cols, "nrmse", Nothing)

calculate_mpe(df, cols) == Grouped(df, cols, "mpe", Nothing)

calculate_r2_1to1(df, cols) == Grouped(df, cols, "r2", Nothing)

calculate_gain(df, cols, unfixed) == Grouped(df, cols, "gain", unfixed)

----------------------------------------------------------------------------
(* Inputs of the metric engine study: tables of at most MaxRecords records *)
(* of one variable, two treatments and two calibrations.                   *)

MaxRecords == 3

MeRecord(t, c, s, m) ==
    [variable |-> "Yield", calibration_method |-> <<"method", c>>,
     short_label |-> c, long_label |-> <<"long", c>>, treatment |-> t,
     value_simulated |-> s, value_measured |-> m]

\* [simulated, measured]
MeValues == {<<5, 5>>, <<7, 7>>, <<7, 5>>, <<0, 0>>}

MeRecords ==
    {MeRecord(t, c, v[1], v[2]) : t \in {"WW-23", "DR-22"}, c \in {"A", "B"},
                                  v \in MeValues}

InitEngine ==
    /\ pc = "start"
    /\ me_overview \in SeqsUpTo(MeRecords, MaxRecords)
    /\ me_nrmse = Idle
    /\ me_mpe = Idle
    /\ me_r2 = Idle
    /\ me_gain = Idle
    /\ meRestIdle

\* Figure-5 line 53
ComputeGroupedNrmse ==
    /\ pc = "start"
    /\ pc' = "nrmse"
    /\ me_nrmse' = compute_grouped_nrmse(me_overview, group_cols)
    /\ UNCHANGED <<me_overview, me_mpe, me_r2, me_gain, meRest>>

\* Figure-5 line 62
CalculateMpe ==
    /\ pc = "nrmse"
    /\ pc' = "mpe"
    /\ me_mpe' = calculate_mpe(me_overview, group_cols)
    /\ UNCHANGED <<me_overview, me_nrmse, me_r2, me_gain, meRest>>

\* Figure-5 line 63
CalculateR2 ==
    /\ pc = "mpe"
    /\ pc' = "r2"
    /\ me_r2' = calculate_r2_1to1(me_overview, group_cols)
    /\ UNCHANGED <<me_overview, me_nrmse, me_mpe, me_gain, meRest>>

\* Figure-5 line 64
CalculateGain ==
    /\ pc = "r2"
    /\ pc' = "done"
    /\ \E unfixed \in UnfixedSlopes :
           me_gain' = calculate_gain(me_overview, group_cols, unfixed)
    /\ UNCHANGED <<me_overview, me_nrmse, me_mpe, me_r2, meRest>>

NextEngine ==
    \/ ComputeGroupedNrmse
    \/ CalculateMpe
    \/ CalculateR2
    \/ CalculateGain

SpecEngine == InitEngine /\ [][NextEngine]_vars

----------------------------------------------------------------------------
(* What the spec says of the metric engine. *)

\* The variable, the treatment and the calibration of a record.
Triple(r) ==
    <<r.variable, r.treatment, <<r.calibration_method, r.short_label, r.long_label>>>>

Triples == {Triple(me_overview[i]) : i \in 1..Len(me_overview)}

\* The records of the table that share the variable, treatment and calibration.
Sharing(x) == SelectSeq(me_overview, LAMBDA r : Triple(r) = x)

\* The rows of a metric table that stand for the group x.
RowsOfGroup(table, x) ==
    {i \in 1..Len(table) :
        /\ {"variable", "treatment", "calibration_method", "short_label",
            "long_label"} \subseteq DOMAIN table[i].key
        /\ Triple(table[i].key) = x}

\* The table has one row for every group and no other row.
OneRowPerGroup(table) ==
    /\ Len(table) = Cardinality(Triples)
    /\ \A x \in Triples : Cardinality(RowsOfGroup(table, x)) = 1

\* Simulated equals measured on every record of the group.
Exact(x) ==
    \A i \in 1..Len(Sharing(x)) :
        Sharing(x)[i].value_simulated = Sharing(x)[i].value_measured

\* The measured values of the group are not all equal.
MeasuredVary(x) ==
    \E i, j \in 1..Len(Sharing(x)) :
        Sharing(x)[i].value_measured # Sharing(x)[j].value_measured

\* The gain of the group is 1.0.
GainIsOne(x) ==
    \A i \in RowsOfGroup(me_gain, x) : me_gain[i].value = Some(1000)

----------------------------------------------------------------------------
(* Inputs of the extract_treatment_info_plantgrowth study: every file of   *)
(* at most MaxInfoLines lines drawn from InfoLineKinds, so that the        *)
(* EXPERIMENT and TREATMENT lines sit anywhere inside a block.             *)

MaxInfoLines == 6

InfoLineKinds ==
    {L_DSSAT, L_OTHER, PG_EXP("CIOB2301"), PG_EXP("CIOB2201"),
     PG_TRT("1", "WW23_G-1"), PG_TRT("2", "DR22_G-1")}

InitInfo ==
    /\ pc = "start"
    /\ lines \in SeqsUpTo(InfoLineKinds, MaxInfoLines)
    /\ result_dict = Idle
    /\ treatment_number_name = Idle
    /\ treatment_experiment_name = Idle
    /\ infoRestIdle

\* ts_get_data.py lines 55-56: simulations_lines, then
\* extract_treatment_info_plantgrowth on the mapping it returned.
ExtractTreatmentInfo ==
    /\ pc = "start"
    /\ LET td == simulations_lines(lines)
       IN IF td = Nothing
          THEN /\ pc' = "raised"
               /\ UNCHANGED <<result_dict, treatment_number_name,
                              treatment_experiment_name>>
          ELSE LET info == extract_treatment_info_plantgrowth(lines, Get(td))
               IN /\ pc' = IF info.raised THEN "raised_info" ELSE "done"
                  /\ result_dict' = Get(td)
                  /\ treatment_number_name' = info.treatment_number_name
                  /\ treatment_experiment_name' = info.treatment_experiment_name
    /\ UNCHANGED <<lines, infoRest>>

NextInfo == ExtractTreatmentInfo

SpecInfo == InitInfo /\ [][NextInfo]_vars

----------------------------------------------------------------------------
(* What the spec says of extract_treatment_info_plantgrowth, stated on the *)
(* file.                                                                   *)

\* The treatment numbers the TREATMENT lines of block s give the name.
NumbersIn(s, name) ==
    {Line(lines, i).toks[2] :
        i \in {j \in BlockTrts(s) : NameKept(Line(lines, j).toks) = name}}

\* The experiment codes the EXPERIMENT lines of block s give.
CodesIn(s) ==
    {AfterFirstColon(Line(lines, i).toks)[1] :
        i \in {j \in s..BlockLast(s) :
                  /\ StrippedStartsWith(Line(lines, j), "EXPERIMENT")
                  /\ AfterFirstColon(Line(lines, j).toks) # <<>>}}

\* C15: for every treatment name that is a key of the mapping returned by
\* simulations_lines on the same file, both returned dictionaries contain
\* that name, mapped to the treatment number of that block's TREATMENT line
\* and to the experiment code of the EXPERIMENT line of the same block,
\* wherever the EXPERIMENT and TREATMENT lines sit inside the block.
C15_InfoOfOwnBlock ==
    pc = "done" =>
        \A k \in 1..Len(result_dict) :
            LET name == result_dict[k].key
                s == result_dict[k].val.start
            IN /\ name \in DictKeys(treatment_number_name)
               /\ name \in DictKeys(treatment_experiment_name)
               /\ DictGet(treatment_number_name, name) \in NumbersIn(s, name)
               /\ CodesIn(s) # {} =>
                      DictGet(treatment_experiment_name, name) \in CodesIn(s)

----------------------------------------------------------------------------
(* Inputs of the read_growth_file study: every file of at most             *)
(* MaxGrowthLines lines drawn from GrowthLineKinds.                        *)

MaxGrowthLines == 5

GrowthLineKinds ==
    {L_DSSAT, L_BLANK, PG_TRT("1", "WW23_G-1"), PG_TRT("2", "DR22_G-1"), PG_HDR,
     PG_ROWS_A[1], PG_ROWS_A[2]}

InitGrowth ==
    /\ pc = "start"
    /\ lines \in SeqsUpTo(GrowthLineKinds, MaxGrowthLines)
    /\ result_dict = Idle
    /\ all_plantgro_dfs = <<>>
    /\ growthRestIdle

\* ts_get_data.py line 55: treatment_dict = simulations_lines(out_file_path)
GrowthRanges ==
    /\ pc = "start"
    /\ LET td == simulations_lines(lines)
       IN IF td = Nothing
          THEN pc' = "raised_ranges" /\ UNCHANGED result_dict
          ELSE /\ result_dict' = Get(td)
               /\ pc' = IF Get(td) = <<>> THEN "done" ELSE "loop"
    /\ UNCHANGED <<lines, all_plantgro_dfs, growthRest>>

\* ts_get_data.py lines 59-61: one pass of `for genotype in treatment_dict`,
\* up to the table read_growth_file returns (or its exception).
ReadGrowthFile ==
    /\ pc = "loop"
    /\ LET k == Len(all_plantgro_dfs) + 1
           df == read_growth_file(lines, result_dict[k].val)
       IN /\ all_plantgro_dfs' = Append(all_plantgro_dfs, df)
          /\ pc' = IF df.raised THEN "raised"
                   ELSE IF k = Len(result_dict) THEN "done" ELSE "loop"
    /\ UNCHANGED <<lines, result_dict, growthRest>>

NextGrowth ==
    \/ GrowthRanges
    \/ ReadGrowthFile

SpecGrowth == InitGrowth /\ [][NextGrowth]_vars

----------------------------------------------------------------------------
(* What the spec says of read_growth_file, stated on the file.             *)

\* The first '@' header line of the block that starts at s.
FirstHeader(s) == Min(BlockHeaders(s))

\* The lines of the block after its first header.
AfterHeader(s) == (FirstHeader(s) + 1)..BlockLast(s)

\* The block has a header, and after it rows of as many numbers as the
\* header has tokens.
GrowthBlock(s) ==
    /\ BlockHeaders(s) # {}
    /\ \A j \in AfterHeader(s) :
          LET ts == Line(lines, j).toks
          IN /\ Len(ts) = Len(Line(lines, FirstHeader(s)).toks)
             /\ \A c \in 1..Len(ts) : NumberOf(ts[c]) # Nothing

\* The table has the header's tokens as columns and the lines after the
\* header, all of them and no other, as rows.
IsTableOf(df, s) ==
    LET hdr == Line(lines, FirstHeader(s)).toks
    IN /\ ~df.raised
       /\ df.columns = {hdr[c] : c \in 1..Len(hdr)}
       /\ Len(df.rows) = Cardinality(AfterHeader(s))
       /\ \A i \in 1..Len(df.rows) :
             \A c \in 1..Len(hdr) :
                 df.rows[i][hdr[c]] = NumberOf(Line(lines, FirstHeader(s) + i).toks[c])

\* C16: for every range returned by simulations_lines on the same file
\* (also for a block whose '*DSSAT' line is the first line of the file, and
\* for the last block), the table read_growth_file returns has as columns
\* the tokens of the first '@' header line of that block and as rows exactly
\* the lines of that block that follow the header, and no line of another
\* block.
C16_TableOfOwnBlock ==
    \A k \in 1..Len(all_plantgro_dfs) :
        GrowthBlock(result_dict[k].val.start) =>
            IsTableOf(all_plantgro_dfs[k], result_dict[k].val.start)

----------------------------------------------------------------------------
(* create_metric_grid_heatmaps: one panel per treatment.  A panel is the   *)
(* rows and columns sns.heatmap draws, top to bottom and left to right,    *)
(* with the labels of its y ticks and its title.                           *)

\* update_variable_names rewrites the units inside a name.  Names are atoms
\* here: a name that is a unit is rewritten, a name holding no unit is kept.
update_variable_names(names) ==
    [i \in 1..Len(names) |->
        CASE names[i] = "kg/ha/day" -> "kg ha$^{-1}$ day$^{-1}$"
          [] names[i] = "g/m2" -> "g m$^{-2}$"
          [] names[i] = "kg/ha" -> "kg ha$^{-1}$"
          [] names[i] = "m2" -> "m$^{-2}$"
          [] OTHER -> names[i]]

\* Lines 77-81: the y tick labels are blanked in every panel but the first.
TickLabels(col, index) ==
    IF col = 0 THEN index ELSE [i \in 1..Len(index) |-> ""]

\* Lines 45-90: the panel of column col (0-based) for the treatment's NRMSE
\* table.
Panel(col, treatment, nrmse) ==
    [title |-> treatment,
     rows |-> nrmse.index,
     columns |-> nrmse.columns,
     annot |-> nrmse.cell,
     yticklabels |-> update_variable_names(TickLabels(col, nrmse.index))]

create_metric_grid_heatmaps(mbt, trts) ==
    [c \in 1..Len(trts) |-> Panel(c - 1, trts[c], DictGet(mbt, trts[c]).nrmse)]

\* Figure-5 lines 81-92
CreateMetricGridHeatmaps ==
    /\ pc = "done"
    /\ metrics_by_treatment # Idle
    /\ axes = Idle
    /\ pc' = "plotted"
    /\ axes' = create_metric_grid_heatmaps(metrics_by_treatment, treatments)
    /\ UNCHANGED grRest

NextGrid ==
    \/ ComputeGlobalMetricLimits
    \/ PrepareMetricsByTreatment
    \/ CreateMetricGridHeatmaps

SpecGrid == InitMetrics /\ [][NextGrid]_vars

----------------------------------------------------------------------------
(* What the spec says of the grid of Figure 5. *)

\* C17: the variable labels are drawn only on the first treatment column, and
\* for every treatment column the variable shown in row k is the variable
\* labelled in row k of the first column.
C17_RowsMatchFirstColumnLabels ==
    pc = "plotted" =>
        \A c \in 1..Len(axes) :
            /\ c > 1 => \A k \in 1..Len(axes[c].yticklabels) : axes[c].yticklabels[k] = ""
            /\ Len(axes[c].rows) = Len(axes[1].yticklabels)
            /\ \A k \in 1..Len(axes[c].rows) : axes[c].rows[k] = axes[1].yticklabels[k]

----------------------------------------------------------------------------
(* Figure-6: for one variable and one treatment, the measurement table of  *)
(* every calibration code is loaded and the tables are concatenated; the   *)
(* panel draws the per-DAP mean and SD band of the concatenated table.     *)

LoadFailed == [raised |-> TRUE, wht_full_df |-> <<>>]

\* ts_get_data.py lines 139-183
LoadSelected(t, pg, variable_name) ==
    IF t.raised THEN LoadFailed
    ELSE LET s == SelectedTable(t.table, pg.plantgro_df, variable_name)
         IN IF s.raised THEN LoadFailed
            ELSE [raised |-> FALSE, wht_full_df |-> s.table]

\* ts_get_data.py lines 134-156
LoadTimed(m, pg, label, variable_name) ==
    IF m.raised THEN LoadFailed
    ELSE LoadSelected(TimedTable(m.table, pg.plantgro_df, pg.dap0_dates, label),
                      pg, variable_name)

\* ts_get_data.py lines 106-132
LoadMapped(w, pg, label, variable_name, treatment) ==
    IF w.raised THEN LoadFailed
    ELSE LoadTimed(MappedTable(w.table, pg.tnn, pg.ten, treatment),
                   pg, label, variable_name)

\* ts_get_data.py lines 96-104, for every order the set of experiments may
\* be met in.
LoadOfPlantGro(pg, files, label, variable_name, treatment) ==
    IF pg.raised THEN {LoadFailed}
    ELSE {LoadMapped(WhtTable(files, order), pg, label, variable_name, treatment) :
              order \in Orders(unique_wht(pg.ten))}

\* The results the call may give for one calibration folder.
load_prepare_time_series_data(folder, files, variable_name, treatment) ==
    LoadOfPlantGro(PlantGroTable(folder.plantgro, folder.short_label,
                                 variable_name, treatment),
                   files, ShortLabelStr(folder.short_label), variable_name,
                   treatment)

\* Figure-6 lines 25-26
cultivars ==
    {<<"G-1">>, <<"G-2">>, <<"G-3">>, <<"G-4">>, <<"G-5">>, <<"G-6">>, <<"G-7">>,
     <<"G-8">>, <<"G-9">>, <<"G-10">>, <<"G-11">>, <<"G-12">>, <<"G-13">>, <<"G-14">>}

\* Figure-6 line 65: pd.concat(treatment_wht_dfs_list, ignore_index=True)
ConcatAll(frames) == Concat(frames)

\* Line 80 of the panel: the band is drawn when the variable's column has a
\* value.
HasMeasurements(table, variable_name) ==
    /\ variable_name \in table.columns
    /\ \E i \in 1..Len(table.rows) : table.rows[i][variable_name] # Nothing

SumOfSquares(q) == SumOf([i \in 1..Len(q) |-> q[i] * q[i]])

\* One group of groupby("DAP").agg(mean, std): the values in row order, the
\* mean as a fraction, and the square of the sample SD as a fraction (std of
\* a single value is NaN, filled with 0.0 at line 87).
MeasGroup(dap, values) ==
    LET n == Len(values)
    IN [DAP |-> dap,
        values |-> values,
        mean_val |-> [num |-> SumOf(values), den |-> n],
        sd_val_sq |-> IF n = 1 THEN [num |-> 0, den |-> 1]
                      ELSE [num |-> n * SumOfSquares(values) - SumOf(values) * SumOf(values),
                            den |-> n * (n - 1)]]

\* Lines 81-87 of the panel: the rows of the cultivars, grouped by DAP in
\* ascending order; a NaN value is skipped by mean and std.
MeasStats(table, variable_name) ==
    LET rows == SelectSeq(table.rows,
                    LAMBDA r : r["genotype"] # Nothing /\ Get(r["genotype"]) \in cultivars
                               /\ r["DAP"] # Nothing /\ r[variable_name] # Nothing)
        daps == Ascending({Get(rows[i]["DAP"]) : i \in 1..Len(rows)})
    IN [k \in 1..Len(daps) |->
           MeasGroup(daps[k],
               LET of == SelectSeq(rows, LAMBDA r : Get(r["DAP"]) = daps[k])
               IN [i \in 1..Len(of) |-> Get(of[i][variable_name])])]

----------------------------------------------------------------------------
(* Inputs of the Figure-6 study: at most MaxCodes calibration folders with *)
(* a PlantGro.OUT of one run each, the .WHT files, a variable and a        *)
(* treatment.                                                              *)

MaxCodes == 2

CalibrationFolders ==
    {[plantgro |-> <<PG_TITLE, L_BLANK>> \o b, short_label |-> l] :
        b \in PgBlocks(1), l \in ShortLabelsOfConfig}

CalibrationLists ==
    UNION {[1..n -> CalibrationFolders] : n \in 1..MaxCodes}

var_names == {Some("LWAD"), Some("RWAD")}

InitFigure6 ==
    /\ pc = "loop"
    /\ f6_args \in [codes : CalibrationLists, wht : WhtFiles,
                    variable_name : var_names, treatment : TreatmentsAsked]
    /\ treatment_wht_dfs_list = <<>>
    /\ treatment_wht_dfs = Idle
    /\ meas_stats = Idle
    /\ f6RestIdle

\* Figure-6 lines 49-58: one turn of `for calib_code in calibration_code_list`.
LoadCalibration ==
    /\ pc = "loop"
    /\ Len(treatment_wht_dfs_list) < Len(f6_args.codes)
    /\ \E r \in load_prepare_time_series_data(
                    f6_args.codes[Len(treatment_wht_dfs_list) + 1], f6_args.wht,
                    f6_args.variable_name, f6_args.treatment) :
           /\ pc' = IF r.raised THEN "raised" ELSE "loop"
           /\ treatment_wht_dfs_list' =
                  IF r.raised THEN treatment_wht_dfs_list
                  ELSE Append(treatment_wht_dfs_list, r.wht_full_df)
    /\ UNCHANGED <<f6_args, treatment_wht_dfs, meas_stats, f6Rest>>

\* Figure-6 line 65
ConcatTreatment ==
    /\ pc = "loop"
    /\ Len(treatment_wht_dfs_list) = Len(f6_args.codes)
    /\ pc' = "concatenated"
    /\ treatment_wht_dfs' = ConcatAll(treatment_wht_dfs_list)
    /\ UNCHANGED <<f6_args, treatment_wht_dfs_list, meas_stats, f6Rest>>

\* Lines 78-95 of the panel: the band of the treatment, Nothing when no band
\* is drawn.
PlotMeasurements ==
    /\ pc = "concatenated"
    /\ pc' = "plotted"
    /\ meas_stats' =
           IF HasMeasurements(treatment_wht_dfs, Get(f6_args.variable_name))
           THEN Some(MeasStats(treatment_wht_dfs, Get(f6_args.variable_name)))
           ELSE Nothing
    /\ UNCHANGED <<f6_args, treatment_wht_dfs_list, treatment_wht_dfs, f6Rest>>

NextFigure6 ==
    \/ LoadCalibration
    \/ ConcatTreatment
    \/ PlotMeasurements

SpecFigure6 == InitFigure6 /\ [][NextFigure6]_vars

----------------------------------------------------------------------------
(* What the spec says of the measurement table of Figure 6. *)

\* The genotypes of the cultivars measured at one DAP.
GenotypesAt(table, variable_name, dap) ==
    {table.rows[i]["genotype"] :
        i \in {j \in 1..Len(table.rows) :
                  /\ table.rows[j]["DAP"] = Some(dap)
                  /\ table.rows[j]["genotype"] # Nothing
                  /\ Get(table.rows[j]["genotype"]) \in cultivars
                  /\ table.rows[j][variable_name] # Nothing}}

\* C18: the measurement table built for a treatment and variable holds each
\* field observation (genotype, date) exactly once, whatever the number of
\* calibration codes loaded, so the per-DAP mean and SD band are computed over
\* one value per genotype.
C18_EachObservationOnce ==
    /\ pc \in {"concatenated", "plotted"} =>
           \A i, j \in 1..Len(treatment_wht_dfs.rows) :
               (/\ treatment_wht_dfs.rows[i]["genotype"] = treatment_wht_dfs.rows[j]["genotype"]
                /\ treatment_wht_dfs.rows[i]["DATE"] = treatment_wht_dfs.rows[j]["DATE"])
               => i = j
    /\ (pc = "plotted" /\ meas_stats # Nothing) =>
           \A k \in 1..Len(Get(meas_stats)) :
               Len(Get(meas_stats)[k].values) =
                   Cardinality(GenotypesAt(treatment_wht_dfs, Get(f6_args.variable_name),
                                           Get(meas_stats)[k].DAP))

====
